---- MODULE Spec2Model ----
(***************************************************************************)
(* A model of the dafsa repository: the DAFSA class of dafsa/dafsa.py      *)
(* (incremental construction with node folding, weight collection, the    *)
(* joining of single transitions and lookup), the array compaction of     *)
(* src/dafsa/minimize.py with the enumeration of src/dafsa/dafsaarray.py,  *)
(* the query engine of src/dafsa/fsa.py over the trie of temp.py, and the  *)
(* DAWG of temp.py.                                                        *)
(*                                                                         *)
(* Elements are one-character strings; a sequence is a tuple of elements. *)
(***************************************************************************)
EXTENDS Naturals, Integers, Sequences, FiniteSets, TLC

\* ------------------------------------------------------------------------
\* Bounds of the model and the element order
\* ------------------------------------------------------------------------

\* Longest sequence handed to DAFSA.insert.
MaxLen == 2

\* Most sequences in one call of DAFSA.insert.
MaxSeqs == 3

\* The elements, in increasing order of Python's comparison of characters.
Alphabet == <<"a", "b">>

Elements == {Alphabet[i] : i \in 1..Len(Alphabet)}

\* Position of an element in the order of the characters.
Ord(c) == CHOOSE i \in 1..Len(Alphabet) : Alphabet[i] = c

\* All sequences over the elements of length at most n.
Words(n) == UNION {[1..k -> Elements] : k \in 0..n}

\* All tuples over set S of length at most n.
TuplesUpTo(S, n) == UNION {[1..k -> S] : k \in 0..n}

Min2(a, b) == IF a < b THEN a ELSE b

\* Python's < on two strings (or tuples) of elements: lexicographic.
RECURSIVE LexLT(_, _)
LexLT(a, b) ==
    IF Len(b) = 0 THEN FALSE
    ELSE IF Len(a) = 0 THEN TRUE
    ELSE IF a[1] # b[1] THEN Ord(a[1]) < Ord(b[1])
    ELSE LexLT(Tail(a), Tail(b))

\* a is a prefix of b (a = b included).
IsPrefix(a, b) == Len(a) <= Len(b) /\ SubSeq(b, 1, Len(a)) = a

\* sorted(xs) for a list of sequences: stable insertion in increasing order.
RECURSIVE SortedSeqs(_)
SortedSeqs(xs) ==
    IF Len(xs) = 0 THEN <<>>
    ELSE LET rest == SortedSeqs(SubSeq(xs, 1, Len(xs) - 1))
             x == xs[Len(xs)]
             k == Cardinality({i \in 1..Len(rest) : ~LexLT(x, rest[i])})
         IN SubSeq(rest, 1, k) \o <<x>> \o SubSeq(rest, k + 1, Len(rest))

\* The members of a list, as a set.
Range(s) == {s[i] : i \in 1..Len(s)}

\* ------------------------------------------------------------------------
\* dafsa/dafsa.py: DAFSANode, DAFSAEdge, DAFSA
\* ------------------------------------------------------------------------

VARIABLES
    nodes,            \* DAFSA.nodes: the keys of the registry, in insertion order
    heap,             \* every DAFSANode created so far, by node_id
    unchecked_nodes,  \* DAFSA._unchecked_nodes: list of (parent, token, child)
    iditer,           \* DAFSA._iditer: the next node_id
    num_sequences,    \* DAFSA._num_sequences (None before insert)
    lookup_nodes,     \* DAFSA.lookup_nodes: the deep copy taken by insert
    phase,            \* position inside DAFSA.insert
    sequences,        \* insert's local `sequences`, once sorted
    todo,             \* the sequences the loop of insert has not reached yet
    previous_seq,     \* the loop's previous_seq
    kwargs,           \* insert's keyword arguments minimize, weight, join_trans
    lookup_ret        \* the last call of DAFSA.lookup and what it returned

dafsaVars == <<nodes, heap, unchecked_nodes, iditer, num_sequences, lookup_nodes,
               phase, sequences, todo, previous_seq, kwargs, lookup_ret>>

\* temp.py and src/dafsa/fsa.py: the state of a Trie (an FSA) and of its caller.
VARIABLES
    fsa_nodes,     \* every FSANode of the trie, by id (the root has id 0)
    fsa_id,        \* FSA._id
    num_of_words,  \* FSA._num_of_words
    added,         \* the words Trie.add was called with, in call order
    ret            \* the last query on the trie and what it returned

fsaVars == <<fsa_nodes, fsa_id, num_of_words, added, ret>>

\* src/dafsa/common.py and src/dafsa/minimize.py: build_dafsa(sequences,
\* check=True) and the locals of minimize_trie it goes through.
VARIABLES
    build_sequences,  \* build_dafsa's argument `sequences`
    root_node,        \* the SearchGraph built from the sequences
    trie_copy,        \* minimize_trie's trie_copy, as merge_redundant_nodes leaves it
    clist_dict,       \* merge_redundant_nodes' result: the child lists, in dict order
    compress_dict,    \* merge_child_list's result: (child list, target) in dict order
    array,            \* the entries of the DafsaArray
    extracted,        \* what build_dafsa's check got out of extract_sequences(array)
    build_pc          \* position inside build_dafsa

arrayVars == <<build_sequences, root_node, trie_copy, clist_dict, compress_dict,
               array, extracted, build_pc>>

\* temp.py: the state of a DAWG and of its caller.
VARIABLES
    dawg_nodes,         \* every FSANode of the DAWG, by id (the root has id 1)
    dawg_id,            \* FSA._id
    dawg_num_of_words,  \* FSA._num_of_words
    prev_word,          \* DAWG.__prev_word
    prev_node,          \* DAWG.__prev_node
    minimized_nodes,    \* DAWG.__minimized_nodes: (hash when stored, key, value)
    dawg_unchecked,     \* DAWG.__unchecked_nodes: (parent, letter, child)
    dawg_ret            \* the last call on the DAWG and whether it raised

dawgVars == <<dawg_nodes, dawg_id, dawg_num_of_words, prev_word, prev_node,
              minimized_nodes, dawg_unchecked, dawg_ret>>

\* What the operations of each part leave alone.
notDafsa == <<fsaVars, arrayVars, dawgVars>>

notFsa == <<dafsaVars, arrayVars, dawgVars>>

notArray == <<dafsaVars, fsaVars, dawgVars>>

notDawg == <<dafsaVars, fsaVars, arrayVars>>

\* Python's None where a node id or a count is expected.
None == -1

NoEdges == [l \in {} |-> 0]

\* DAFSANode.__init__: no edges, not final, weight 0.
DAFSANode == [edges |-> NoEdges, final |-> FALSE, weight |-> 0]

\* DAFSAEdge.__init__: the target node and a weight.
DAFSAEdge(node, weight) == [node |-> node, weight |-> weight]

\* sorted(labels): the labels of a set in increasing order.
SortedLabels(S) ==
    [i \in 1..Cardinality(S) |->
        CHOOSE l \in S : Cardinality({m \in S : Ord(m) < Ord(l)}) = i - 1]

\* DAFSANode.__str__: the (label, target node_id) pairs in sorted label order;
\* neither the weights nor the final flag are part of it.
NodeStr(h, id) ==
    LET labels == SortedLabels(DOMAIN h[id].edges)
    IN [i \in 1..Len(labels) |-> <<labels[i], h[id].edges[labels[i]].node>>]

\* __eq__ had it compared the labels of the edges only, not their targets.
NodeEqLabelsOnly(h, a, b) == DOMAIN h[a].edges = DOMAIN h[b].edges

\* DAFSANode.__eq__: equal text.
NodeEq(h, a, b) == NodeStr(h, a) = NodeStr(h, b)

\* common_prefix_length had it never counted the last element of seq_a.
RECURSIVE common_prefix_length_proper(_, _)
common_prefix_length_proper(seq_a, seq_b) ==
    IF Len(seq_a) <= 1 \/ Len(seq_b) = 0 THEN 0
    ELSE IF seq_a[1] # seq_b[1] THEN 0
    ELSE 1 + common_prefix_length_proper(Tail(seq_a), Tail(seq_b))

\* utils.common_prefix_length.
RECURSIVE common_prefix_length(_, _)
common_prefix_length(seq_a, seq_b) ==
    IF Len(seq_a) = 0 \/ Len(seq_b) = 0 THEN 0
    ELSE IF seq_a[1] # seq_b[1] THEN 0
    ELSE 1 + common_prefix_length(Tail(seq_a), Tail(seq_b))

\* _minimize had it folded equal nodes whatever the `minimize` flag says.
MinimizeStepAlwaysFold(g, minimize) ==
    LET u == g.unchecked[Len(g.unchecked)]
        rest == SubSeq(g.unchecked, 1, Len(g.unchecked) - 1)
        child_idx == SelectSeq(g.nodes, LAMBDA node_idx : NodeEq(g.heap, node_idx, u.child))
    IN IF Len(child_idx) > 0
       THEN [g |-> [heap |-> [g.heap EXCEPT ![u.parent].edges[u.token].node = child_idx[1]],
                    nodes |-> g.nodes, unchecked |-> rest],
             changed |-> TRUE]
       ELSE [g |-> [heap |-> g.heap, nodes |-> Append(g.nodes, u.child), unchecked |-> rest],
             changed |-> FALSE]

\* _minimize had it not carried the final flag of a folded child over to the
\* node that takes its place.
MinimizeStepDropsFinal(g, minimize) ==
    LET u == g.unchecked[Len(g.unchecked)]
        rest == SubSeq(g.unchecked, 1, Len(g.unchecked) - 1)
        child_idx == SelectSeq(g.nodes,
                               LAMBDA node_idx : NodeEq(g.heap, node_idx, u.child) /\ minimize)
    IN IF Len(child_idx) > 0
       THEN [g |-> [heap |-> [g.heap EXCEPT ![u.parent].edges[u.token].node = child_idx[1]],
                    nodes |-> g.nodes, unchecked |-> rest],
             changed |-> TRUE]
       ELSE [g |-> [heap |-> g.heap, nodes |-> Append(g.nodes, u.child), unchecked |-> rest],
             changed |-> FALSE]

\* _minimize had it read the `minimize` flag the wrong way round.
MinimizeStepFlagInverted(g, minimize) ==
    LET u == g.unchecked[Len(g.unchecked)]
        rest == SubSeq(g.unchecked, 1, Len(g.unchecked) - 1)
        child_idx == SelectSeq(g.nodes,
                               LAMBDA node_idx : NodeEq(g.heap, node_idx, u.child) /\ ~minimize)
    IN IF Len(child_idx) > 0
       THEN [g |-> [heap |-> [g.heap EXCEPT ![u.parent].edges[u.token].node = child_idx[1]],
                    nodes |-> g.nodes, unchecked |-> rest],
             changed |-> TRUE]
       ELSE [g |-> [heap |-> g.heap, nodes |-> Append(g.nodes, u.child), unchecked |-> rest],
             changed |-> FALSE]

\* One iteration of the for loop of DAFSA._minimize on graph g = [heap, nodes,
\* unchecked]: pop the last unchecked entry and either retarget the parent's
\* edge to the first registered node equal to the child, carrying the final
\* flag, or register the child.
MinimizeStep(g, minimize) ==
    LET u == g.unchecked[Len(g.unchecked)]
        rest == SubSeq(g.unchecked, 1, Len(g.unchecked) - 1)
        child_idx == SelectSeq(g.nodes,
                               LAMBDA node_idx : NodeEq(g.heap, node_idx, u.child) /\ minimize)
    IN IF Len(child_idx) > 0
       THEN LET target == child_idx[1]
                h1 == IF g.heap[g.heap[u.parent].edges[u.token].node].final
                      THEN [g.heap EXCEPT ![target].final = TRUE]
                      ELSE g.heap
                h2 == [h1 EXCEPT ![u.parent].edges[u.token].node = target]
            IN [g |-> [heap |-> h2, nodes |-> g.nodes, unchecked |-> rest],
                changed |-> TRUE]
       ELSE [g |-> [heap |-> g.heap, nodes |-> Append(g.nodes, u.child), unchecked |-> rest],
             changed |-> FALSE]

\* The for loop of _minimize had it stopped one entry early.
RECURSIVE MinimizePassButOne(_, _, _, _)
MinimizePassButOne(g, n, minimize, graph_changed) ==
    IF n <= 1 THEN [g |-> g, changed |-> graph_changed]
    ELSE LET u == g.unchecked[Len(g.unchecked)]
         IN MinimizePassButOne([heap |-> g.heap, nodes |-> Append(g.nodes, u.child),
                                unchecked |-> SubSeq(g.unchecked, 1, Len(g.unchecked) - 1)],
                               n - 1, minimize, graph_changed)

\* The for loop of DAFSA._minimize: n iterations, n fixed when the loop starts.
RECURSIVE MinimizePass(_, _, _, _)
MinimizePass(g, n, minimize, graph_changed) ==
    IF n <= 0 THEN [g |-> g, changed |-> graph_changed]
    ELSE LET r == MinimizeStep(g, minimize)
         IN MinimizePass(r.g, n - 1, minimize, graph_changed \/ r.changed)

\* _minimize had it run its for loop over the whole frontier, whatever the
\* index.
RECURSIVE MinimizeWholeFrontier(_, _, _)
MinimizeWholeFrontier(g, index, minimize) ==
    LET r == MinimizePass(g, Len(g.unchecked), minimize, FALSE)
    IN IF r.changed THEN MinimizeWholeFrontier(r.g, index, minimize) ELSE r.g

\* DAFSA._minimize(index, minimize): passes are repeated until one leaves the
\* graph untouched.
RECURSIVE Minimize(_, _, _)
Minimize(g, index, minimize) ==
    LET r == MinimizePass(g, Len(g.unchecked) - index, minimize, FALSE)
    IN IF r.changed THEN Minimize(r.g, index, minimize) ELSE r.g

\* The loop of DAFSA._insert_single_seq that adds one new node per token of
\* the suffix, starting at `node`; g also carries iditer here.
RECURSIVE AddSuffix(_, _, _)
AddSuffix(g, node, suffix) ==
    IF Len(suffix) = 0 THEN [g EXCEPT !.heap[node].final = TRUE]
    ELSE LET child == g.iditer
             token == suffix[1]
             h1 == [i \in 0..child |-> IF i = child THEN DAFSANode ELSE g.heap[i]]
             old == h1[node].edges
             h2 == [h1 EXCEPT ![node].edges =
                       [l \in DOMAIN old \cup {token} |->
                           IF l = token THEN DAFSAEdge(child, 0) ELSE old[l]]]
             g2 == [heap |-> h2, nodes |-> g.nodes,
                    unchecked |-> Append(g.unchecked,
                                         [parent |-> node, token |-> token, child |-> child]),
                    iditer |-> child + 1]
         IN AddSuffix(g2, child, Tail(suffix))

\* _insert_single_seq had it folded the whole frontier, not only the entries
\* beyond the common prefix.
InsertSingleSeqFoldsAll(g, seq, prev, minimize) ==
    LET prefix_len == common_prefix_length(seq, prev)
        m == Minimize([heap |-> g.heap, nodes |-> g.nodes, unchecked |-> g.unchecked],
                      0, minimize)
    IN AddSuffix([heap |-> m.heap, nodes |-> m.nodes, unchecked |-> m.unchecked,
                  iditer |-> g.iditer],
                 0, SubSeq(seq, prefix_len + 1, Len(seq)))

\* DAFSA._insert_single_seq(seq, previous_seq, minimize).
InsertSingleSeq(g, seq, prev, minimize) ==
    LET prefix_len == common_prefix_length(seq, prev)
        m == Minimize([heap |-> g.heap, nodes |-> g.nodes, unchecked |-> g.unchecked],
                      prefix_len, minimize)
        node == IF Len(m.unchecked) = 0 THEN 0
                ELSE m.unchecked[Len(m.unchecked)].child
    IN AddSuffix([heap |-> m.heap, nodes |-> m.nodes, unchecked |-> m.unchecked,
                  iditer |-> g.iditer],
                 node, SubSeq(seq, prefix_len + 1, Len(seq)))

\* The walk of _collect_weights had it counted the nodes only, not the edges.
RECURSIVE WeighPathNodesOnly(_, _, _)
WeighPathNodesOnly(h, node, seq) ==
    IF Len(seq) = 0 THEN [ok |-> TRUE, heap |-> h]
    ELSE IF seq[1] \notin DOMAIN h[node].edges THEN [ok |-> FALSE, heap |-> h]
    ELSE LET nxt == h[node].edges[seq[1]].node
             h2 == [h EXCEPT ![nxt].weight = @ + 1]
         IN WeighPathNodesOnly(h2, nxt, Tail(seq))

\* The walk of DAFSA._collect_weights along one sequence from `node`, which
\* has just been counted: each edge taken and each node landed on gains 1.
\* ok is FALSE when an edge is missing (a KeyError in the code).
RECURSIVE WeighPath(_, _, _)
WeighPath(h, node, seq) ==
    IF Len(seq) = 0 THEN [ok |-> TRUE, heap |-> h]
    ELSE IF seq[1] \notin DOMAIN h[node].edges THEN [ok |-> FALSE, heap |-> h]
    ELSE LET nxt == h[node].edges[seq[1]].node
             h1 == [h EXCEPT ![node].edges[seq[1]].weight = @ + 1]
             h2 == [h1 EXCEPT ![nxt].weight = @ + 1]
         IN WeighPath(h2, nxt, Tail(seq))

\* DAFSA._collect_weights(sequences); `root` is self.nodes[0].
RECURSIVE CollectWeights(_, _, _)
CollectWeights(h, root, seqs) ==
    IF Len(seqs) = 0 THEN [ok |-> TRUE, heap |-> h]
    ELSE LET h1 == [h EXCEPT ![root].weight = @ + 1]
             r == WeighPath(h1, root, seqs[1])
         IN IF r.ok THEN CollectWeights(r.heap, root, Tail(seqs)) ELSE r

\* DAFSA.lookup(seq) on a copy [heap, nodes] of the graph: the node reached,
\* or None when an edge is missing or the node reached is not final.
RECURSIVE LookupFrom(_, _, _)
LookupFrom(h, node, seq) ==
    IF Len(seq) = 0 THEN (IF h[node].final THEN node ELSE None)
    ELSE IF seq[1] \notin DOMAIN h[node].edges THEN None
    ELSE LookupFrom(h, h[node].edges[seq[1]].node, Tail(seq))

Lookup(copy, seq) == LookupFrom(copy.heap, 0, seq)

\* The list `edges` of _joining_round: one (source, label) per edge of every
\* registered node.
JoinEdges(g) ==
    UNION {{<<n, l>> : l \in DOMAIN g.heap[n].edges} : n \in Range(g.nodes)}

\* The loop of _joining_round over self.nodes from the k-th entry on that
\* collects the transitions to join.  The test against transitions_nodes
\* iterates the keys of edge_info, "source" and "target", and these are what
\* is stored there: once one transition is collected no other is.  raised is
\* TRUE for the IndexError of an empty list indexed at 0.
RECURSIVE JoinScan(_, _, _)
JoinScan(g, k, transitions) ==
    IF k > Len(g.nodes) THEN [raised |-> FALSE, transitions |-> transitions]
    ELSE LET node_id == g.nodes[k]
             node == g.heap[node_id]
             incoming == {e \in JoinEdges(g) : g.heap[e[1]].edges[e[2]].node = node_id}
         IN IF Cardinality(incoming) > 1 \/ Cardinality(DOMAIN node.edges) > 1 \/ node.final
            THEN JoinScan(g, k + 1, transitions)
            ELSE IF incoming = {} \/ DOMAIN node.edges = {}
            THEN [raised |-> TRUE, transitions |-> transitions]
            ELSE LET e == CHOOSE x \in incoming : TRUE
                     label_to == CHOOSE l \in DOMAIN node.edges : TRUE
                     transition == [source |-> e[1], target |-> node_id,
                                    label_from |-> e[2], label_to |-> label_to]
                 IN JoinScan(g, k + 1,
                             IF Len(transitions) = 0 THEN <<transition>> ELSE transitions)

\* The second loop of _joining_round: the source gets an edge under the joined
\* label to where the target's edge led, loses the edge to the target, and
\* the target leaves the registry.
RECURSIVE JoinApply(_, _, _)
JoinApply(g, transitions, delimiter) ==
    IF Len(transitions) = 0 THEN g
    ELSE LET t == transitions[1]
             new_label == t.label_from \o delimiter \o t.label_to
             onward == g.heap[t.target].edges[t.label_to]
             old == g.heap[t.source].edges
             set == [l \in DOMAIN old \cup {new_label} |->
                        IF l = new_label THEN DAFSAEdge(onward.node, onward.weight)
                        ELSE old[l]]
             popped == [l \in DOMAIN set \ {t.label_from} |-> set[l]]
         IN JoinApply([heap |-> [g.heap EXCEPT ![t.source].edges = popped],
                       nodes |-> SelectSeq(g.nodes, LAMBDA id : id # t.target)],
                      Tail(transitions), delimiter)

\* DAFSA._join_transitions with the default delimiter: rounds of
\* _joining_round until one joins nothing.
RECURSIVE JoinTransitions(_)
JoinTransitions(g) ==
    LET r == JoinScan(g, 1, <<>>)
    IN IF r.raised THEN [raised |-> TRUE, g |-> g]
       ELSE IF Len(r.transitions) = 0 THEN [raised |-> FALSE, g |-> g]
       ELSE JoinTransitions(JoinApply(g, r.transitions, " "))

\* The copy of self.nodes had insert taken it after joining the transitions.
SnapshotAfterJoin(before, after) ==
    [set |-> TRUE, heap |-> after.heap, nodes |-> after.nodes]

\* self.lookup_nodes = copy.deepcopy(self.nodes), taken before
\* _join_transitions works on self.nodes.
Snapshot(before, after) ==
    [set |-> TRUE, heap |-> before.heap, nodes |-> before.nodes]

\* The loop of DAFSA.insert over the sorted sequences.
RECURSIVE InsertAll(_, _, _, _)
InsertAll(g, seqs, prev, minimize) ==
    IF Len(seqs) = 0 THEN g
    ELSE InsertAll(InsertSingleSeq(g, seqs[1], prev, minimize), Tail(seqs), seqs[1], minimize)

\* DAFSA.insert(sequences, minimize=..., weight=...) on a fresh object, with
\* join_trans left at False: the graph it leaves; ok is FALSE for a KeyError.
insert(seqs, minimize, weight) ==
    LET sorted == SortedSeqs(seqs)
        g == InsertAll([heap |-> [i \in {0} |-> DAFSANode], nodes |-> <<0>>,
                        unchecked |-> <<>>, iditer |-> 1],
                       sorted, <<>>, minimize)
        m == Minimize([heap |-> g.heap, nodes |-> g.nodes, unchecked |-> g.unchecked],
                      0, minimize)
        w == IF weight THEN CollectWeights(m.heap, 0, sorted)
             ELSE [ok |-> TRUE, heap |-> m.heap]
    IN [ok |-> w.ok, heap |-> w.heap, nodes |-> m.nodes, unchecked |-> m.unchecked]

\* DAFSA.count_nodes and DAFSA.count_edges.
RECURSIVE SumSeq(_)
SumSeq(s) == IF Len(s) = 0 THEN 0 ELSE s[1] + SumSeq(Tail(s))

count_nodes == Len(nodes)

count_edges == SumSeq([i \in 1..Len(nodes) |-> Cardinality(DOMAIN heap[nodes[i]].edges)])


\* DAFSA.__init__ without sequences: the root node alone.
InitDafsaObject ==
    /\ nodes = <<0>>
    /\ heap = [i \in {0} |-> DAFSANode]
    /\ unchecked_nodes = <<>>
    /\ iditer = 1
    /\ num_sequences = None
    /\ lookup_nodes = [set |-> FALSE, heap |-> <<>>, nodes |-> <<>>]
    /\ phase = "idle"
    /\ sequences = <<>>
    /\ todo = <<>>
    /\ previous_seq = <<>>
    /\ kwargs = [minimize |-> TRUE, weight |-> TRUE, join_trans |-> FALSE]
    /\ lookup_ret = [called |-> FALSE, seq |-> <<>>, node |-> None]

\* DAFSA.insert, up to its loop: read the keyword arguments, sort the
\* sequences, store their number, start from the dummy empty previous word.
InsertCall(seqs, minimize, weight, join_trans) ==
    /\ phase = "idle"
    /\ sequences' = SortedSeqs(seqs)
    /\ num_sequences' = Len(seqs)
    /\ todo' = SortedSeqs(seqs)
    /\ previous_seq' = <<>>
    /\ kwargs' = [minimize |-> minimize, weight |-> weight, join_trans |-> join_trans]
    /\ phase' = "loop"
    /\ UNCHANGED <<nodes, heap, unchecked_nodes, iditer, lookup_nodes, lookup_ret>>
    /\ UNCHANGED notDafsa

\* One round of the loop of DAFSA.insert: _insert_single_seq(seq, previous_seq).
InsertLoop ==
    /\ phase = "loop"
    /\ Len(todo) > 0
    /\ LET g == InsertSingleSeq([heap |-> heap, nodes |-> nodes,
                                 unchecked |-> unchecked_nodes, iditer |-> iditer],
                                todo[1], previous_seq, kwargs.minimize)
       IN /\ heap' = g.heap
          /\ nodes' = g.nodes
          /\ unchecked_nodes' = g.unchecked
          /\ iditer' = g.iditer
    /\ previous_seq' = todo[1]
    /\ todo' = Tail(todo)
    /\ UNCHANGED <<num_sequences, lookup_nodes, phase, sequences, kwargs, lookup_ret>>
    /\ UNCHANGED notDafsa

\* The rest of DAFSA.insert after the loop: the final _minimize(0, minimize),
\* the weights when asked for, the deep copy kept for lookup, and the joining
\* of single transitions when asked for.  A KeyError of _collect_weights
\* leaves phase "raised", an IndexError of _joining_round "IndexError".
InsertFinish ==
    /\ phase = "loop"
    /\ Len(todo) = 0
    /\ LET m == Minimize([heap |-> heap, nodes |-> nodes, unchecked |-> unchecked_nodes],
                         0, kwargs.minimize)
           w == IF kwargs.weight THEN CollectWeights(m.heap, 0, sequences)
                ELSE [ok |-> TRUE, heap |-> m.heap]
           before == [heap |-> w.heap, nodes |-> m.nodes]
           j == IF kwargs.join_trans THEN JoinTransitions(before)
                ELSE [raised |-> FALSE, g |-> before]
       IN /\ unchecked_nodes' = m.unchecked
          /\ IF w.ok
             THEN /\ heap' = j.g.heap
                  /\ nodes' = j.g.nodes
                  /\ lookup_nodes' = Snapshot(before, j.g)
                  /\ phase' = IF j.raised THEN "IndexError" ELSE "done"
             ELSE /\ heap' = w.heap
                  /\ nodes' = m.nodes
                  /\ lookup_nodes' = lookup_nodes
                  /\ phase' = "raised"
    /\ UNCHANGED <<iditer, num_sequences, sequences, todo, previous_seq, kwargs, lookup_ret>>
    /\ UNCHANGED notDafsa

\* DAFSA.lookup(seq) once insert has returned.
LookupCall(seq) ==
    /\ phase = "done"
    /\ lookup_ret' = [called |-> TRUE, seq |-> seq, node |-> Lookup(lookup_nodes, seq)]
    /\ UNCHANGED <<nodes, heap, unchecked_nodes, iditer, num_sequences, lookup_nodes,
                   phase, sequences, todo, previous_seq, kwargs>>
    /\ UNCHANGED notDafsa

\* The guards in front of the quantifiers are those of the actions: no input
\* is drawn where the action cannot take place.
NextDafsa ==
    \/ /\ phase = "idle"
       /\ \E seqs \in TuplesUpTo(Words(MaxLen), MaxSeqs), minimize \in BOOLEAN,
             weight \in BOOLEAN :
             InsertCall(seqs, minimize, weight, FALSE)
    \/ InsertLoop
    \/ InsertFinish
    \/ /\ phase = "done"
       /\ \E seq \in Words(MaxLen) : LookupCall(seq)

\* The same with join_trans=True.
NextJoin ==
    \/ /\ phase = "idle"
       /\ \E seqs \in TuplesUpTo(Words(MaxLen), MaxSeqs), minimize \in BOOLEAN,
             weight \in BOOLEAN :
             InsertCall(seqs, minimize, weight, TRUE)
    \/ InsertLoop
    \/ InsertFinish
    \/ /\ phase = "done"
       /\ \E seq \in Words(MaxLen) : LookupCall(seq)


\* ------------------------------------------------------------------------
\* temp.py: validate_expression and Trie; src/dafsa/fsa.py: FSANode and FSA
\* ------------------------------------------------------------------------

\* Longest word given to Trie.add and to the queries.
FsaMaxLen == 2

\* Most calls of Trie.add.
MaxAdds == 2

\* Longest wildcard pattern given to FSA.search.
MaxPattern == 3

\* Most calls of Trie.add before the wildcard searches.
SearchMaxAdds == 1

\* Longest word given to Trie.add before the searches by prefix.
PrefixMaxLen == 3

\* Largest distance given to FSA.search_within_distance.
MaxDist == 1

\* A character outside [\w?*].
IllegalChar == "-"

PatternChars == Elements \cup {"?", "*", IllegalChar}

\* An argument that may be None: a sequence, or None.
Some(seq) == [none |-> FALSE, seq |-> seq]

NoneArg == [none |-> TRUE, seq |-> <<>>]

\* FSANode.__init__.
FSANode(id, val) ==
    [id |-> id, val |-> val, children |-> <<>>, terminal |-> FALSE, count |-> 0]

\* node.children is a dict in insertion order: a list of (letter, id) here.
HasChild(node, letter) == \E i \in 1..Len(node.children) : node.children[i].letter = letter

\* FSANode.__getitem__: the id of the child under `letter`.
ChildOf(node, letter) ==
    LET i == CHOOSE k \in 1..Len(node.children) : node.children[k].letter = letter
    IN node.children[i].id

\* Trie.add(word, count) from node `node` on, t = [nodes, id, num]; i is the
\* number of letters already walked.
RECURSIVE TrieAddFrom(_, _, _, _, _)
TrieAddFrom(t, node, word, i, count) ==
    IF i >= Len(word) THEN t
    ELSE LET letter == word[i + 1]
             fresh == ~HasChild(t.nodes[node], letter)
             new_id == t.id + 1
             n1 == IF fresh
                   THEN [k \in DOMAIN t.nodes \cup {new_id} |->
                            IF k = new_id THEN FSANode(new_id, letter)
                            ELSE IF k = node
                            THEN [t.nodes[k] EXCEPT !.children =
                                     Append(@, [letter |-> letter, id |-> new_id])]
                            ELSE t.nodes[k]]
                   ELSE t.nodes
             child == ChildOf(n1[node], letter)
             last == (i = Len(word) - 1)
             n2 == IF last
                   THEN [n1 EXCEPT ![child].terminal = TRUE, ![child].count = @ + count]
                   ELSE n1
             t2 == [nodes |-> n2,
                    id |-> IF fresh THEN new_id ELSE t.id,
                    num |-> IF last THEN t.num + count ELSE t.num]
         IN TrieAddFrom(t2, child, word, i + 1, count)

\* Trie.add(word, count).
TrieAdd(t, word, count) == TrieAddFrom(t, 0, word, 0, count)

\* The walk of __contains__ had it forgotten to ask whether the last node is
\* terminal.
RECURSIVE ContainsFromAnyNode(_, _, _, _)
ContainsFromAnyNode(h, node, seq, idx) ==
    IF idx >= Len(seq) THEN FALSE
    ELSE IF ~HasChild(h[node], seq[idx + 1]) THEN FALSE
    ELSE LET nxt == ChildOf(h[node], seq[idx + 1])
         IN IF idx = Len(seq) - 1 THEN TRUE
            ELSE ContainsFromAnyNode(h, nxt, seq, idx + 1)

\* The walk of FSA.__contains__ from `node`; idx letters are behind.
RECURSIVE ContainsFrom(_, _, _, _)
ContainsFrom(h, node, seq, idx) ==
    IF idx >= Len(seq) THEN FALSE
    ELSE IF ~HasChild(h[node], seq[idx + 1]) THEN FALSE
    ELSE LET nxt == ChildOf(h[node], seq[idx + 1])
         IN IF h[nxt].terminal /\ idx = Len(seq) - 1 THEN TRUE
            ELSE ContainsFrom(h, nxt, seq, idx + 1)

\* FSA.__contains__(seq).
Contains(h, arg) ==
    IF ~arg.none /\ arg.seq = <<>> THEN TRUE
    ELSE IF arg.none THEN FALSE
    ELSE ContainsFrom(h, 0, arg.seq, 0)

\* The walk of FSA.__contains_prefix: the node reached, or None.
RECURSIVE PrefixNode(_, _, _)
PrefixNode(h, node, prefix) ==
    IF Len(prefix) = 0 THEN node
    ELSE IF HasChild(h[node], prefix[1])
    THEN PrefixNode(h, ChildOf(h[node], prefix[1]), Tail(prefix))
    ELSE None

\* __contains_prefix had it accepted terminal nodes only.
ContainsPrefixPairTerminal(h, arg) ==
    IF ~arg.none /\ arg.seq = <<>> THEN <<TRUE, 0>>
    ELSE IF arg.none THEN <<FALSE, None>>
    ELSE LET node == PrefixNode(h, 0, arg.seq)
         IN IF node = None \/ ~h[node].terminal THEN <<FALSE, None>> ELSE <<TRUE, node>>

\* FSA.__contains_prefix(prefix): (found, node).
ContainsPrefixPair(h, arg) ==
    IF ~arg.none /\ arg.seq = <<>> THEN <<TRUE, 0>>
    ELSE IF arg.none THEN <<FALSE, None>>
    ELSE LET node == PrefixNode(h, 0, arg.seq)
         IN IF node = None THEN <<FALSE, None>> ELSE <<TRUE, node>>

\* FSA.contains_prefix(prefix).
ContainsPrefix(h, arg) == ContainsPrefixPair(h, arg)[1]

\* The test for '?' before '*' had it been made with re.match, at the head of
\* the expression only.
QuestionBeforeAsteriskAtHead(e) ==
    Len(e) >= 2 /\ e[1] = "?" /\ e[2] = "*"

\* re.search(r'\?+(?=\*+)', e): some '?' stands right before a '*'.
QuestionBeforeAsterisk(e) ==
    \E i \in 1..(Len(e) - 1) : e[i] = "?" /\ e[i + 1] = "*"

\* re.search(r'[^\w?*]+', e): some character is neither a word character
\* nor '?' nor '*'.
HasIllegalChar(e) == \E i \in 1..Len(e) : e[i] \notin Elements \cup {"?", "*"}

\* re.sub(c+, c, e): every run of character c becomes a single c.
RECURSIVE CollapseRuns(_, _)
CollapseRuns(e, c) ==
    IF Len(e) <= 1 THEN e
    ELSE IF e[1] = c /\ e[2] = c THEN CollapseRuns(Tail(e), c)
    ELSE <<e[1]>> \o CollapseRuns(Tail(e), c)

\* The text left after the longest run of '*?' pairs at the head of e.
RECURSIVE SkipStarQuestion(_)
SkipStarQuestion(e) ==
    IF Len(e) >= 2 /\ e[1] = "*" /\ e[2] = "?" THEN SkipStarQuestion(SubSeq(e, 3, Len(e)))
    ELSE e

\* re.sub(r'(\*\?)+', '*', e): every run of '*?' pairs becomes a single '*'.
RECURSIVE ReplaceStarQuestion(_)
ReplaceStarQuestion(e) ==
    IF Len(e) = 0 THEN e
    ELSE IF Len(e) >= 2 /\ e[1] = "*" /\ e[2] = "?"
    THEN <<"*">> \o ReplaceStarQuestion(SkipStarQuestion(e))
    ELSE <<e[1]>> \o ReplaceStarQuestion(Tail(e))

\* validate_expression: raised is TRUE for InvalidWildCardExpressionError,
\* else result is the shortened expression.
validate_expression(e) ==
    IF QuestionBeforeAsterisk(e) \/ HasIllegalChar(e)
    THEN [raised |-> TRUE, result |-> <<>>]
    ELSE [raised |-> FALSE,
          result |-> ReplaceStarQuestion(CollapseRuns(CollapseRuns(e, "*"), "?"))]

\* One entry of a result list: the word, or (word, count) under with_count.
Entry(h, node, word, with_count) ==
    IF with_count THEN <<word, h[node].count>> ELSE word

\* FSA.__words_with_wildcard(node, wildcard, index, current_word, with_count);
\* WildcardChildren is its loop over node.children from the k-th child on,
\* calling itself at pattern position `index`.
RECURSIVE words_with_wildcard(_, _, _, _, _, _)
RECURSIVE WildcardChildren(_, _, _, _, _, _, _)
WildcardChildren(h, node, k, wildcard, index, current_word, with_count) ==
    IF k > Len(h[node].children) THEN <<>>
    ELSE LET c == h[node].children[k]
         IN words_with_wildcard(h, c.id, wildcard, index,
                                Append(current_word, c.letter), with_count)
            \o WildcardChildren(h, node, k + 1, wildcard, index, current_word, with_count)

words_with_wildcard(h, node, wildcard, index, current_word, with_count) ==
    IF Len(wildcard) = 0 \/ index < 0 THEN <<>>
    ELSE IF h[node].terminal /\ index >= Len(wildcard) /\ Len(current_word) > 0
    THEN <<Entry(h, node, current_word, with_count)>>
    ELSE IF index >= Len(wildcard) THEN <<>>
    ELSE LET letter == wildcard[index + 1]
         IN IF letter = "?"
            THEN WildcardChildren(h, node, 1, wildcard, index + 1, current_word, with_count)
            ELSE IF letter = "*"
            THEN LET words_at_current_level ==
                        words_with_wildcard(h, node, wildcard, index + 1,
                                            current_word, with_count)
                 IN IF Len(h[node].children) > 0
                    THEN words_at_current_level
                         \o WildcardChildren(h, node, 1, wildcard, index,
                                             current_word, with_count)
                    ELSE IF h[node].terminal /\ index = Len(wildcard) - 1
                    THEN <<Entry(h, node, current_word, with_count)>>
                    ELSE words_at_current_level
            ELSE IF HasChild(h[node], letter)
            THEN LET child_node == ChildOf(h[node], letter)
                 IN words_with_wildcard(h, child_node, wildcard, index + 1,
                                        Append(current_word, h[child_node].val),
                                        with_count)
            ELSE <<>>

\* str.isalpha on a pattern: not empty and letters only.
IsAlpha(e) == Len(e) > 0 /\ \A i \in 1..Len(e) : e[i] \in Elements

\* FSA.search(wildcard, with_count): raised names the exception, if any.
search(h, arg, with_count) ==
    IF arg.none THEN [raised |-> "ValueError", words |-> <<>>]
    ELSE IF arg.seq = <<>> THEN [raised |-> "", words |-> <<>>]
    ELSE LET v == validate_expression(arg.seq)
             wildcard == v.result
         IN IF v.raised
            THEN [raised |-> "InvalidWildCardExpressionError", words |-> <<>>]
            ELSE IF IsAlpha(wildcard)
            THEN LET pn == ContainsPrefixPair(h, Some(wildcard))
                 IN [raised |-> "",
                     words |-> IF pn[1] /\ h[pn[2]].terminal
                               THEN <<Entry(h, pn[2], wildcard, with_count)>>
                               ELSE <<>>]
            ELSE [raised |-> "",
                  words |-> words_with_wildcard(h, 0, wildcard, 0, <<>>, with_count)]

\* search_with_prefix had it left the prefix's own node out of the result.
search_with_prefix_below(h, arg, with_count) ==
    IF arg.none \/ arg.seq = <<>> THEN <<>>
    ELSE LET node == ContainsPrefixPair(h, arg)[2]
         IN IF node = None THEN <<>>
            ELSE WildcardChildren(h, node, 1, <<"*">>, 0, arg.seq, with_count)

\* FSA.search_with_prefix(prefix, with_count).
search_with_prefix(h, arg, with_count) ==
    IF arg.none \/ arg.seq = <<>> THEN <<>>
    ELSE LET node == ContainsPrefixPair(h, arg)[2]
         IN IF node = None THEN <<>>
            ELSE words_with_wildcard(h, node, <<"*">>, 0, arg.seq, with_count)

Min3(a, b, c) == Min2(a, Min2(b, c))

\* The pruning test had it looked at the largest entry of the row.
MaxOf(row) == CHOOSE m \in Range(row) : \A x \in Range(row) : m >= x

\* The smallest member of a non-empty list of numbers.
MinOf(row) == CHOOSE m \in Range(row) : \A x \in Range(row) : m <= x

\* The row loop of FSA._search_within_distance: curr_row grows to cols entries.
RECURSIVE FillRow(_, _, _, _)
FillRow(word, letter, row, curr_row) ==
    IF Len(curr_row) >= Len(word) + 1 THEN curr_row
    ELSE LET col == Len(curr_row)
             i == curr_row[col] + 1
             d == row[col + 1] + 1
             r == IF word[col] # letter THEN row[col] + 1 ELSE row[col]
         IN FillRow(word, letter, row, Append(curr_row, Min3(i, d, r)))

\* FSA._search_within_distance: the list `words` after the call;
\* DistanceChildren is its loop over node.children from the k-th child on.
RECURSIVE search_within_distance_rec(_, _, _, _, _, _, _, _, _)
RECURSIVE DistanceChildren(_, _, _, _, _, _, _, _, _)
DistanceChildren(h, word, node, k, new_word, words, curr_row, dist, with_count) ==
    IF k > Len(h[node].children) THEN words
    ELSE LET c == h[node].children[k]
             w1 == search_within_distance_rec(h, word, c.id, c.letter,
                                              Append(new_word, c.letter), words,
                                              curr_row, dist, with_count)
         IN DistanceChildren(h, word, node, k + 1, new_word, w1, curr_row, dist, with_count)

search_within_distance_rec(h, word, node, letter, new_word, words, row, dist, with_count) ==
    LET curr_row == FillRow(word, letter, row, <<row[1] + 1>>)
        w1 == IF curr_row[Len(curr_row)] <= dist /\ h[node].terminal
              THEN Append(words, Entry(h, node, new_word, with_count))
              ELSE words
    IN IF MinOf(curr_row) <= dist
       THEN DistanceChildren(h, word, node, 1, new_word, w1, curr_row, dist, with_count)
       ELSE w1

\* FSA.search_within_distance(word, dist, with_count).
search_within_distance(h, word, dist, with_count) ==
    DistanceChildren(h, word, 0, 1, <<>>, <<>>,
                     [i \in 1..(Len(word) + 1) |-> i - 1], dist, with_count)

\* ------------------------------------------------------------------------
\* src/dafsa/searchgraph.py: SearchGraph
\* ------------------------------------------------------------------------

\* SearchGraph.__init__ without sequences. A node is the record of its
\* fields; its children are nodes again.
SearchGraph(value, terminal, group_end) ==
    [value |-> value, terminal |-> terminal, group_end |-> group_end, children |-> <<>>]

\* SearchGraph._add(sequence) on node `self`: walk down the last child while
\* it carries the next element, add a fresh child otherwise, and mark the
\* node the sequence ends on.
RECURSIVE SearchGraphAdd(_, _)
SearchGraphAdd(self, sequence) ==
    IF Len(sequence) = 0 THEN [self EXCEPT !.terminal = TRUE]
    ELSE LET element == sequence[1]
             n == Len(self.children)
             fresh == n = 0 \/ self.children[n].value # element
             kids == IF fresh THEN Append(self.children, SearchGraph("", FALSE, FALSE))
                     ELSE self.children
             last == [kids[Len(kids)] EXCEPT !.value = element]
         IN [self EXCEPT !.children =
                [kids EXCEPT ![Len(kids)] = SearchGraphAdd(last, Tail(sequence))]]

\* sorted(set(init)): the distinct sequences in ascending order.
RECURSIVE Distinct(_)
Distinct(xs) ==
    IF Len(xs) = 0 THEN <<>>
    ELSE LET rest == Distinct(SubSeq(xs, 1, Len(xs) - 1))
         IN IF xs[Len(xs)] \in Range(rest) THEN rest ELSE Append(rest, xs[Len(xs)])

RECURSIVE SearchGraphAddAll(_, _)
SearchGraphAddAll(self, seqs) ==
    IF Len(seqs) = 0 THEN self
    ELSE SearchGraphAddAll(SearchGraphAdd(self, seqs[1]), Tail(seqs))

\* SearchGraph(init): an empty init adds nothing.
SearchGraphInit(init) ==
    SearchGraphAddAll(SearchGraph("", FALSE, FALSE), SortedSeqs(Distinct(init)))

\* SearchGraph.collect_elements, as the set of its members.
RECURSIVE collect_elements(_)
collect_elements(self) ==
    (IF self.value = "" THEN {} ELSE {self.value})
        \cup UNION {collect_elements(self.children[i]) : i \in 1..Len(self.children)}

\* F(x) with x evaluated before the call, once, as Python evaluates the
\* arguments of a call and the right-hand side of an assignment.
Call(F(_), x) == CHOOSE y \in {F(v) : v \in {x}} : TRUE

\* What a call gives: the value it returns, or the exception it raises (with
\* a value that nothing reads).
Returned(value) == [raised |-> "", value |-> value]

Raised(exception, value) == [raised |-> exception, value |-> value]

\* SearchGraph._internal_repr: (value, terminal, group_end, offspring);
\* offspring None is the empty tuple here, a node with children never has it.
RECURSIVE internal_repr(_)
internal_repr(self) ==
    <<self.value, self.terminal, self.group_end,
      [i \in 1..Len(self.children) |-> internal_repr(self.children[i])]>>

\* Python's order on element values; '' comes before every element.
ValueLT(a, b) == a # b /\ (a = "" \/ (b # "" /\ Ord(a) < Ord(b)))

\* Python's < on two tuples of _internal_repr tuples, from item i on: the
\* first pair of items that differ decides; where one tuple ends the shorter
\* one is the smaller.
RECURSIVE ReprLT(_, _)
RECURSIVE ReprTupleLT(_, _, _)
ReprTupleLT(xs, ys, i) ==
    IF i > Len(xs) \/ i > Len(ys) THEN Returned(Len(xs) < Len(ys))
    ELSE IF xs[i] # ys[i] THEN ReprLT(xs[i], ys[i])
    ELSE ReprTupleLT(xs, ys, i + 1)

\* Python's < on two _internal_repr tuples that agree in value, terminal and
\* group_end, which their offspring decide: equal offspring give False, None
\* against a tuple raises TypeError, two tuples compare item by item.
ReprSeqLT(xs, ys) ==
    IF xs = ys THEN Returned(FALSE)
    ELSE IF Len(xs) = 0 \/ Len(ys) = 0 THEN Raised("TypeError", FALSE)
    ELSE ReprTupleLT(xs, ys, 1)

\* Python's < on two _internal_repr tuples: the first differing item decides.
ReprLT(a, b) ==
    IF a[1] # b[1] THEN Returned(ValueLT(a[1], b[1]))
    ELSE IF a[2] # b[2] THEN Returned(b[2])
    ELSE IF a[3] # b[3] THEN Returned(b[3])
    ELSE ReprSeqLT(a[4], b[4])

\* SearchGraph.__lt__.
SearchGraphLT(self, other) ==
    IF Len(self.children) < Len(other.children) THEN Returned(TRUE)
    ELSE ReprLT(internal_repr(self), internal_repr(other))

\* Python's < on two (i, node) tuples.
PairLT(x, y) ==
    IF x[1] # y[1] THEN Returned(x[1] < y[1]) ELSE SearchGraphLT(x[2], y[2])

\* CPython's list sort on a short list of (i, node) tuples (count_run, then
\* binarysort): SearchGraph.__lt__ is no total order, so the result depends
\* on the comparisons the algorithm makes, and the sort raises what the first
\* of them raises.
RECURSIVE RunEnd(_, _, _)
RunEnd(xs, n, descending) ==
    IF n >= Len(xs) THEN Returned(n)
    ELSE LET lt == PairLT(xs[n + 1], xs[n])
         IN IF lt.raised # "" THEN Raised(lt.raised, n)
            ELSE IF lt.value = descending THEN RunEnd(xs, n + 1, descending)
            ELSE Returned(n)

Reversed(xs) == [i \in 1..Len(xs) |-> xs[Len(xs) + 1 - i]]

RECURSIVE BinarySearch(_, _, _, _)
BinarySearch(xs, pivot, l, r) ==
    IF l >= r THEN Returned(l)
    ELSE LET p == l + ((r - l) \div 2)
             lt == PairLT(pivot, xs[p])
         IN IF lt.raised # "" THEN Raised(lt.raised, l)
            ELSE IF lt.value THEN BinarySearch(xs, pivot, l, p)
            ELSE BinarySearch(xs, pivot, p + 1, r)

RECURSIVE BinarySort(_, _)
BinarySort(xs, start) ==
    IF start > Len(xs) THEN Returned(xs)
    ELSE LET pivot == xs[start]
             found == BinarySearch(xs, pivot, 1, start)
             l == found.value
         IN IF found.raised # "" THEN Raised(found.raised, <<>>)
            ELSE BinarySort(SubSeq(xs, 1, l - 1) \o <<pivot>> \o SubSeq(xs, l, start - 1)
                               \o SubSeq(xs, start + 1, Len(xs)),
                            start + 1)

PySorted(xs) ==
    IF Len(xs) < 2 THEN Returned(xs)
    ELSE LET first == PairLT(xs[2], xs[1])
             descending == first.value
             counted == RunEnd(xs, 2, descending)
             n == counted.value
             run == IF descending
                    THEN Reversed(SubSeq(xs, 1, n)) \o SubSeq(xs, n + 1, Len(xs))
                    ELSE xs
         IN IF first.raised # "" THEN Raised(first.raised, <<>>)
            ELSE IF counted.raised # "" THEN Raised(counted.raised, <<>>)
            ELSE BinarySort(run, n + 1)

\* sorted(children), a list of nodes.
SortedNodes(children) ==
    LET s == PySorted([i \in 1..Len(children) |-> <<0, children[i]>>])
    IN Raised(s.raised, [i \in 1..Len(s.value) |-> s.value[i][2]])

\* ------------------------------------------------------------------------
\* src/dafsa/minimize.py: merge_redundant_nodes, merge_child_list,
\* build_compression_array; src/dafsa/dafsaarray.py: extract_sequences
\* ------------------------------------------------------------------------

\* node_dict is a list of (ref, node) in insertion order: the keys of a dict.
DictHas(node_dict, ref) == \E i \in 1..Len(node_dict) : node_dict[i].ref = ref

DictGet(node_dict, ref) ==
    node_dict[CHOOSE i \in 1..Len(node_dict) : node_dict[i].ref = ref].node

\* The first loop of merge_redundant_nodes on the subtree of `node`, in the
\* order of SearchGraph.__iter__ (children first): the node as the loop
\* leaves it, its stable_ref, node_dict, and what sorted() raised if it did:
\* the loop ends there. MergeChildren is the walk over the children from the
\* k-th on.
RECURSIVE MergeNode(_, _)
RECURSIVE MergeChildren(_, _, _, _, _)
MergeChildren(children, k, node_dict, done, refs) ==
    IF k > Len(children)
    THEN [nodes |-> done, refs |-> refs, node_dict |-> node_dict, raised |-> ""]
    ELSE Call(LAMBDA r :
                 IF r.raised # ""
                 THEN [nodes |-> done, refs |-> refs, node_dict |-> r.node_dict,
                       raised |-> r.raised]
                 ELSE MergeChildren(children, k + 1, r.node_dict, Append(done, r.node),
                                    Append(refs, r.stable_ref)),
              MergeNode(children[k], node_dict))

\* MergeNode once the children are done: `kids` is what MergeChildren gave.
MergeSelf(node, kids) ==
    LET seen == [node EXCEPT !.children = kids.nodes]
        stable_ref == internal_repr(seen)
        fresh == ~DictHas(kids.node_dict, stable_ref)
    IN Call(LAMBDA sorted_ :
               LET canon == [seen EXCEPT !.children = sorted_.value]
               IN IF sorted_.raised # ""
                  THEN [node |-> seen, stable_ref |-> stable_ref,
                        node_dict |-> kids.node_dict, raised |-> sorted_.raised]
                  ELSE IF fresh
                  THEN [node |-> canon, stable_ref |-> stable_ref,
                        node_dict |-> Append(kids.node_dict,
                                             [ref |-> stable_ref, node |-> canon]),
                        raised |-> ""]
                  ELSE [node |-> canon, stable_ref |-> stable_ref,
                        node_dict |-> kids.node_dict, raised |-> ""],
            IF fresh
            THEN SortedNodes([i \in 1..Len(kids.refs) |->
                                 DictGet(kids.node_dict, kids.refs[i])])
            ELSE SortedNodes(kids.nodes))

MergeNode(node, node_dict) ==
    Call(LAMBDA kids :
            IF kids.raised # ""
            THEN [node |-> node, stable_ref |-> <<>>, node_dict |-> kids.node_dict,
                  raised |-> kids.raised]
            ELSE MergeSelf(node, kids),
         MergeChildren(node.children, 1, node_dict, <<>>, <<>>))

\* merge_redundant_nodes(trie): the trie as it is left, and clist_dict as the
\* list of its keys (every key maps to itself).
merge_redundant_nodes(trie) ==
    Call(LAMBDA r :
            [trie |-> r.node,
             clist_dict |-> Call(Distinct, [i \in 1..Len(r.node_dict) |->
                                              r.node_dict[i].node.children]),
             raised |-> r.raised],
         MergeNode(trie, <<>>))

\* inverse_dict[node] before it is sorted: the clists of a list that hold
\* `node`, in the list's order, each once for every member equal to `node`.
RECURSIVE ListsWith(_, _)
ListsWith(clists, node) ==
    IF Len(clists) = 0 THEN <<>>
    ELSE LET clist == clists[1]
             times == Cardinality({k \in 1..Len(clist) : clist[k] = node})
         IN [k \in 1..times |-> clist] \o ListsWith(Tail(clists), node)

\* The sort key (len(_trie), sum(len(inverse_dict[n]) for n in _trie)) while
\* inverse_dict[sorting] is being sorted: list.sort empties the list it
\* sorts, so that one entry counts 0. `lens` gives len(inverse_dict[n]).
RECURSIVE SumLens(_, _, _, _)
SumLens(clists, _trie, k, sorting) ==
    IF k > Len(_trie) THEN 0
    ELSE (IF sorting.on /\ _trie[k] = sorting.node THEN 0
          ELSE Len(ListsWith(clists, _trie[k])))
         + SumLens(clists, _trie, k + 1, sorting)

\* Python's < on two (length, number) keys.
KeyLT(a, b) == a[1] < b[1] \/ (a[1] = b[1] /\ a[2] < b[2])

\* list.sort(key=...) on keys that are totally ordered: a stable sort.
\* items are (key, value) pairs.
RECURSIVE InsertStable(_, _)
InsertStable(sorted, item) ==
    IF Len(sorted) = 0 THEN <<item>>
    ELSE IF KeyLT(item[1], sorted[Len(sorted)][1])
    THEN Append(InsertStable(SubSeq(sorted, 1, Len(sorted) - 1), item), sorted[Len(sorted)])
    ELSE Append(sorted, item)

RECURSIVE SortStable(_)
SortStable(items) ==
    IF Len(items) = 0 THEN <<>>
    ELSE InsertStable(SortStable(SubSeq(items, 1, Len(items) - 1)), items[Len(items)])

\* sorted(..., reverse=True): descending keys, equal keys in their first order.
RECURSIVE InsertStableReverse(_, _)
InsertStableReverse(sorted, item) ==
    IF Len(sorted) = 0 THEN <<item>>
    ELSE IF KeyLT(sorted[Len(sorted)][1], item[1])
    THEN Append(InsertStableReverse(SubSeq(sorted, 1, Len(sorted) - 1), item),
                sorted[Len(sorted)])
    ELSE Append(sorted, item)

RECURSIVE SortStableReverse(_)
SortStableReverse(items) ==
    IF Len(items) = 0 THEN <<>>
    ELSE InsertStableReverse(SortStableReverse(SubSeq(items, 1, Len(items) - 1)),
                             items[Len(items)])

\* inverse_dict[node] once the sorting loop of merge_child_list is over.
inverse_dict(clists, node) ==
    LET lists == ListsWith(clists, node)
        keyed == [i \in 1..Len(lists) |->
                     <<<<Len(lists[i]),
                         SumLens(clists, lists[i], 1, [on |-> TRUE, node |-> node])>>,
                       lists[i]>>]
        s == SortStable(keyed)
    IN [i \in 1..Len(s) |-> s[i][2]]

\* clist_sorted of merge_child_list.
clist_sorted(clists) ==
    LET keyed == [i \in 1..Len(clists) |->
                     <<<<Len(clists[i]),
                         0 - SumLens(clists, clists[i], 1, [on |-> FALSE, node |-> <<>>])>>,
                       clists[i]>>]
        s == SortStableReverse(keyed)
    IN [i \in 1..Len(s) |-> s[i][2]]

\* min((inverse_dict[t] for t in clist), key=len): the first shortest one.
RECURSIVE MinByLen(_, _)
MinByLen(lists, best) ==
    IF Len(lists) = 0 THEN best
    ELSE MinByLen(Tail(lists), IF Len(lists[1]) < Len(best) THEN lists[1] ELSE best)

\* compress_dict is a list of (clist, target) in insertion order; a target
\* of None is the empty list.
TargetOf(compress, clist) ==
    compress[CHOOSE i \in 1..Len(compress) : compress[i].clist = clist].target

\* The inner loop of merge_child_list over `others`: clist goes to the first
\* other whose last merged list strictly contains it.
RECURSIVE MergeInto(_, _, _)
MergeInto(compress, clist, others) ==
    IF Len(others) = 0 THEN compress
    ELSE LET other == others[1]
             target == TargetOf(compress, other)
         IN IF /\ Len(target) > 0
               /\ Range(clist) \subseteq Range(target[Len(target)])
               /\ Range(clist) # Range(target[Len(target)])
            THEN [i \in 1..Len(compress) |->
                     IF compress[i].clist = clist THEN [compress[i] EXCEPT !.target = <<>>]
                     ELSE IF compress[i].clist = other
                     THEN [compress[i] EXCEPT !.target = Append(target, clist)]
                     ELSE compress[i]]
            ELSE MergeInto(compress, clist, Tail(others))

\* The loop of merge_child_list over clist_sorted.
RECURSIVE MergeLoop(_, _, _)
MergeLoop(clists, compress, todo_clists) ==
    IF Len(todo_clists) = 0 THEN compress
    ELSE LET clist == todo_clists[1]
             inv == [k \in 1..Len(clist) |-> inverse_dict(clists, clist[k])]
         IN MergeLoop(clists, MergeInto(compress, clist, MinByLen(Tail(inv), inv[1])),
                      Tail(todo_clists))

\* The clists that are not empty, and the entries whose target is not None.
RECURSIVE NonEmptyClists(_)
NonEmptyClists(clists) ==
    IF Len(clists) = 0 THEN <<>>
    ELSE IF Len(clists[1]) > 0 THEN <<clists[1]>> \o NonEmptyClists(Tail(clists))
    ELSE NonEmptyClists(Tail(clists))

RECURSIVE WithTarget(_)
WithTarget(compress) ==
    IF Len(compress) = 0 THEN <<>>
    ELSE IF Len(compress[1].target) > 0 THEN <<compress[1]>> \o WithTarget(Tail(compress))
    ELSE WithTarget(Tail(compress))

\* merge_child_list(clist_dict).
merge_child_list(clist_dict_) ==
    LET clists == NonEmptyClists(clist_dict_)
        start == [i \in 1..Len(clists) |-> [clist |-> clists[i], target |-> <<clists[i]>>]]
    IN WithTarget(MergeLoop(clists, start, clist_sorted(clists)))

\* The elements of a set of element values in ascending order:
\* sorted(set(trie.collect_elements())).
SortedElements(S) ==
    LET idx == {i \in 1..Len(Alphabet) : Alphabet[i] \in S}
        rank(i) == Cardinality({j \in idx : j <= i})
    IN [k \in 1..Cardinality(idx) |-> Alphabet[CHOOSE i \in idx : rank(i) = k]]

\* sort_array of build_compression_array once its two loops are over: under
\* each element the (i, y) written last, over every node y of every list i,
\* None (an empty tuple here) where nothing was written.
SortArray(elements, trie_list) ==
    [e \in 1..Len(elements) |->
        LET hits == {iy \in UNION {{<<i, y>> : y \in 1..Len(trie_list[i])} :
                                      i \in 1..Len(trie_list)} :
                        trie_list[iy[1]][iy[2]].value = elements[e]}
        IN IF hits = {} THEN <<>>
           ELSE LET last == CHOOSE h \in hits :
                               \A g \in hits : g[1] < h[1] \/ (g[1] = h[1] /\ g[2] <= h[2])
                IN <<last[1] - 1, trie_list[last[1]][last[2]]>>]

\* The members of a list that are not None.
RECURSIVE Written(_)
Written(sort_array) ==
    IF Len(sort_array) = 0 THEN <<>>
    ELSE IF Len(sort_array[1]) > 0 THEN <<sort_array[1]>> \o Written(Tail(sort_array))
    ELSE Written(Tail(sort_array))

\* sorted(x for x in sort_array if x): what the sort gives.
SortedWritten(elements, trie_list) == PySorted(Written(SortArray(elements, trie_list)))

\* The merged list had it been read off sort_array in the order of the
\* elements, without the sort by list index.
MergedListUnsorted(elements, trie_list) ==
    LET w == Written(SortArray(elements, trie_list))
    IN [i \in 1..Len(w) |-> w[i][2]]

\* [n for _, n in sorted(x for x in sort_array if x)].
MergedList(elements, trie_list) ==
    LET s == SortedWritten(elements, trie_list).value
    IN [i \in 1..Len(s) |-> s[i][2]]

\* The index of a merged child list had it been the start of its block.
TailOffsetBlockStart(pos, block, clist) == pos

\* pos + len(trie_list[0]) - len(clist): where a child list merged into the
\* block of trie_list[0] at pos starts, counted from the end of the block.
TailOffset(pos, block, clist) == pos + Len(block) - Len(clist)

\* A block written without marking its last entry.
BlockCopiesUnmarked(clist) == clist

\* array[pos : pos + len(clist)] = map(copy, clist) and
\* array[pos - 1].group_end = True: the copies of the nodes of a block, the
\* last one marked as the end of its group.
BlockCopies(clist) ==
    [i \in 1..Len(clist) |->
        IF i = Len(clist) THEN [clist[i] EXCEPT !.group_end = TRUE] ELSE clist[i]]

\* None in `array`, where build_compression_array has written no node.
NoNode == [none |-> TRUE]

\* array[pos : pos + len(clist)] = copies, on the array without its end
\* node: the slice is replaced by the copies.
SliceAssign(array_, pos, length, copies) ==
    SubSeq(array_, 1, pos - 1) \o copies \o SubSeq(array_, pos + length, Len(array_))

\* sum(len(_trie[0]) for _trie in compress_dict.values()).
RECURSIVE ArrayLength(_)
ArrayLength(targets) ==
    IF Len(targets) = 0 THEN 0 ELSE Len(targets[1][1]) + ArrayLength(Tail(targets))

\* The loop of build_compression_array over compress_dict.values(): st holds
\* pos, the array (without the end node; None where nothing is written yet),
\* clist_indices as a list of (clist, index), and the values of compress_dict
\* as the loop leaves them: trie_list.append puts the merged list at the end
\* of every value of several lists. The loop ends where sorted() raises.
RECURSIVE CompressionLoop(_, _, _)
CompressionLoop(elements, targets, st) ==
    IF Len(targets) = 0 THEN st
    ELSE LET trie_list == targets[1]
             single == Len(trie_list) = 1
             raised == IF single THEN "" ELSE SortedWritten(elements, trie_list).raised
             clist == IF single THEN trie_list[1] ELSE MergedList(elements, trie_list)
             indices == IF single
                        THEN <<[clist |-> trie_list[1], index |-> st.pos]>>
                        ELSE [i \in 1..Len(trie_list) |->
                                 [clist |-> trie_list[i],
                                  index |-> TailOffset(st.pos, trie_list[1], trie_list[i])]]
             copies == BlockCopies(clist)
         IN IF raised # ""
            THEN [st EXCEPT !.targets = st.targets \o targets, !.raised = raised]
            ELSE Call(LAMBDA next : CompressionLoop(elements, Tail(targets), next),
                      [pos |-> st.pos + Len(clist),
                       array |-> SliceAssign(st.array, st.pos, Len(clist), copies),
                       clist_indices |-> st.clist_indices \o indices,
                       targets |-> Append(st.targets,
                                          IF single THEN trie_list
                                          ELSE Append(trie_list, clist)),
                       raised |-> ""])

\* clist_indices[clist]: a later assignment to the same key replaces the
\* earlier one; KeyError when the key was never assigned.
IndexOf(clist_indices, clist) ==
    LET hits == {i \in 1..Len(clist_indices) : clist_indices[i].clist = clist}
    IN IF hits = {} THEN Raised("KeyError", 0)
       ELSE Returned(clist_indices[CHOOSE i \in hits : \A j \in hits : j <= i].index)

\* ArrayEntry(value, group_end, terminal, child, weight).
ArrayEntry(value, group_end, terminal, child, weight) ==
    [value |-> value, group_end |-> group_end, terminal |-> terminal,
     child |-> child, weight |-> weight]

\* build_compression_array(trie, compress_dict) before the children of the
\* nodes in `array` are replaced by indices: the array, the end node first,
\* clist_indices, compress_dict as the loop leaves it, and what the loop
\* raised if it did.
CompressionState(trie, compress_dict_) ==
    LET end_node == SearchGraph("", FALSE, TRUE)
        targets == [i \in 1..Len(compress_dict_) |-> compress_dict_[i].target]
    IN Call(LAMBDA st :
               [array |-> <<end_node>> \o st.array, clist_indices |-> st.clist_indices,
                compress_dict |-> [i \in 1..Len(compress_dict_) |->
                                      [compress_dict_[i] EXCEPT !.target = st.targets[i]]],
                raised |-> st.raised],
            CompressionLoop(Call(SortedElements, collect_elements(trie)),
                            targets,
                            [pos |-> 1, array |-> [i \in 1..ArrayLength(targets) |-> NoNode],
                             clist_indices |-> <<[clist |-> <<>>, index |-> 0]>>,
                             targets |-> <<>>, raised |-> ""]))

\* node.children = clist_indices[node.children] for one member of `array`:
\* AttributeError on None, KeyError on a child list without an index.
ChildIndex(clist_indices, node) ==
    IF node = NoNode THEN Raised("AttributeError", 0)
    ELSE IndexOf(clist_indices, node.children)

\* The end of build_compression_array: the entries of the nodes in `array`
\* with the indices of their child lists, and the entry of the root node; the
\* first lookup that raises ends it.
ArrayEntries(trie, st) ==
    LET nodes_ == st.array
        child == [i \in 1..Len(nodes_) |-> ChildIndex(st.clist_indices, nodes_[i])]
        root == IndexOf(st.clist_indices, trie.children)
        failed == {i \in 1..Len(nodes_) : child[i].raised # ""}
    IN IF failed # {}
       THEN Raised(child[CHOOSE i \in failed : \A j \in failed : i <= j].raised, <<>>)
       ELSE IF root.raised # "" THEN Raised(root.raised, <<>>)
       ELSE Returned(Append([i \in 1..Len(nodes_) |->
                                ArrayEntry(nodes_[i].value, nodes_[i].group_end,
                                           nodes_[i].terminal, child[i].value, 1)],
                            ArrayEntry("", TRUE, FALSE, root.value, 1)))

\* build_compression_array(trie, compress_dict): the entries it returns, the
\* end node first (index 0 in the code is entry 1 here) and the root node
\* last, and compress_dict as it leaves it.
build_compression_array(trie, compress_dict_) ==
    Call(LAMBDA st :
            Call(LAMBDA entries :
                    [raised |-> IF st.raised # "" THEN st.raised ELSE entries.raised,
                     value |-> IF st.raised # "" THEN <<>> ELSE entries.value,
                     compress_dict |-> st.compress_dict],
                 IF st.raised # "" THEN Raised(st.raised, <<>>) ELSE ArrayEntries(trie, st)),
         CompressionState(trie, compress_dict_))

\* minimize_trie(trie), in one piece: the entries of the DafsaArray it
\* returns.
minimize_trie(trie) ==
    Call(LAMBDA m :
            IF m.raised # "" THEN Raised(m.raised, <<>>)
            ELSE Call(LAMBDA entries : Raised(entries.raised, entries.value),
                      build_compression_array(m.trie, merge_child_list(m.clist_dict))),
         merge_redundant_nodes(trie))

\* extract_sequences(array, node_idx, carry) of dafsaarray.py on the nodes of
\* a dafsaarray.DafsaArray, as the list of what it yields; ExtractGroup is its
\* `while True` loop from node_idx on. Entry node_idx of the code is
\* entries[node_idx + 1].
RECURSIVE ExtractFrom(_, _, _)
RECURSIVE ExtractGroup(_, _, _)
ExtractGroup(entries, node_idx, carry) ==
    LET node == entries[node_idx + 1]
        sub_seq == Append(carry, node.value)
        below == ExtractFrom(entries, node.child, sub_seq)
        here == IF node.terminal THEN Append(below, sub_seq) ELSE below
    IN IF node.group_end THEN here
       ELSE here \o ExtractGroup(entries, node_idx + 1, carry)

ExtractFrom(entries, node_idx, carry) ==
    IF entries[node_idx + 1].value = "" THEN <<>>
    ELSE ExtractGroup(entries, node_idx, carry)

\* extract_sequences(array): from the child of the last entry.
extract_sequences(entries) == ExtractFrom(entries, entries[Len(entries)].child, <<>>)

\* Before build_dafsa is called.
InitBuild ==
    /\ build_sequences = <<>>
    /\ root_node = SearchGraph("", FALSE, FALSE)
    /\ trie_copy = SearchGraph("", FALSE, FALSE)
    /\ clist_dict = <<>>
    /\ compress_dict = <<>>
    /\ array = <<>>
    /\ extracted = <<>>
    /\ build_pc = "idle"

\* build_dafsa(sequences, check=True) up to the call of minimize_trie: the
\* trie of the sequences.
BuildDafsaCall(seqs) ==
    /\ build_pc = "idle"
    /\ build_sequences' = seqs
    /\ root_node' = SearchGraphInit(seqs)
    /\ build_pc' = "minimize_trie"
    /\ UNCHANGED <<trie_copy, clist_dict, compress_dict, array, extracted>>
    /\ UNCHANGED notArray

\* minimize_trie: the deep copy and merge_redundant_nodes on it.
MergeRedundantNodes ==
    /\ build_pc = "minimize_trie"
    /\ \E m \in {merge_redundant_nodes(root_node)} :
          IF m.raised # ""
          THEN /\ build_pc' = m.raised
               /\ UNCHANGED <<trie_copy, clist_dict>>
          ELSE /\ trie_copy' = m.trie
               /\ clist_dict' = m.clist_dict
               /\ build_pc' = "merge_child_list"
    /\ UNCHANGED <<build_sequences, root_node, compress_dict, array, extracted>>
    /\ UNCHANGED notArray

\* minimize_trie: merge_child_list(clist_dict).
MergeChildList ==
    /\ build_pc = "merge_child_list"
    /\ compress_dict' = merge_child_list(clist_dict)
    /\ build_pc' = "build_compression_array"
    /\ UNCHANGED <<build_sequences, root_node, trie_copy, clist_dict, array, extracted>>
    /\ UNCHANGED notArray

\* minimize_trie: build_compression_array(trie_copy, compress_dict), which
\* appends the merged list to every value of compress_dict that holds several
\* lists, and the DafsaArray of minimize.py around its entries.
BuildCompressionArray ==
    /\ build_pc = "build_compression_array"
    /\ \E entries \in {build_compression_array(trie_copy, compress_dict)} :
          /\ IF entries.raised # ""
             THEN /\ build_pc' = entries.raised
                  /\ UNCHANGED array
             ELSE /\ array' = entries.value
                  /\ build_pc' = "check"
          /\ compress_dict' = entries.compress_dict
    /\ UNCHANGED <<build_sequences, root_node, trie_copy, clist_dict, extracted>>
    /\ UNCHANGED notArray

\* The check of build_dafsa: extract_sequences reads array.nodes, which the
\* DafsaArray of minimize.py (its list is `entries`) does not have, so the
\* first step of the generator raises AttributeError and nothing is
\* extracted.
CheckExtracted ==
    /\ build_pc = "check"
    /\ build_pc' = "AttributeError"
    /\ UNCHANGED <<build_sequences, root_node, trie_copy, clist_dict, compress_dict, array,
                   extracted>>
    /\ UNCHANGED notArray

NextBuild ==
    \/ /\ build_pc = "idle"
       /\ \E seqs \in TuplesUpTo(Words(MaxLen), MaxSeqs) : BuildDafsaCall(seqs)
    \/ MergeRedundantNodes
    \/ MergeChildList
    \/ BuildCompressionArray
    \/ CheckExtracted

\* No query has returned yet.
NoRet == [op |-> "none", arg |-> NoneArg, dist |-> 0, with_count |-> FALSE,
          raised |-> "", found |-> FALSE, words |-> <<>>]

\* Trie.__init__: the root FSANode(0, '') under FSA.__init__.
InitTrie ==
    /\ fsa_nodes = [i \in {0} |-> FSANode(0, "")]
    /\ fsa_id = 1
    /\ num_of_words = 1
    /\ added = <<>>
    /\ ret = NoRet

\* Trie.add(word) with the default count of 1.
Add(word) ==
    /\ Len(added) < MaxAdds
    /\ LET t == TrieAdd([nodes |-> fsa_nodes, id |-> fsa_id, num |-> num_of_words], word, 1)
       IN /\ fsa_nodes' = t.nodes
          /\ fsa_id' = t.id
          /\ num_of_words' = t.num
    /\ added' = Append(added, word)
    /\ ret' = NoRet
    /\ UNCHANGED notFsa

\* `arg in fsa`: the queries leave the trie as it is, and the caller reads one
\* result before it asks for the next.
ContainsCall(arg) ==
    /\ ret.op = "none"
    /\ ret' = [NoRet EXCEPT !.op = "contains", !.arg = arg,
                            !.found = Contains(fsa_nodes, arg)]
    /\ UNCHANGED <<fsa_nodes, fsa_id, num_of_words, added>>
    /\ UNCHANGED notFsa

\* fsa.contains_prefix(arg).
ContainsPrefixCall(arg) ==
    /\ ret.op = "none"
    /\ ret' = [NoRet EXCEPT !.op = "contains_prefix", !.arg = arg,
                            !.found = ContainsPrefix(fsa_nodes, arg)]
    /\ UNCHANGED <<fsa_nodes, fsa_id, num_of_words, added>>
    /\ UNCHANGED notFsa

\* fsa.search(arg, with_count).
SearchCall(arg, with_count) ==
    /\ ret.op = "none"
    /\ LET r == search(fsa_nodes, arg, with_count)
       IN ret' = [NoRet EXCEPT !.op = "search", !.arg = arg, !.with_count = with_count,
                              !.raised = r.raised, !.words = r.words]
    /\ UNCHANGED <<fsa_nodes, fsa_id, num_of_words, added>>
    /\ UNCHANGED notFsa

\* fsa.search_with_prefix(arg, with_count).
SearchWithPrefixCall(arg, with_count) ==
    /\ ret.op = "none"
    /\ ret' = [NoRet EXCEPT !.op = "search_with_prefix", !.arg = arg,
                            !.with_count = with_count,
                            !.words = search_with_prefix(fsa_nodes, arg, with_count)]
    /\ UNCHANGED <<fsa_nodes, fsa_id, num_of_words, added>>
    /\ UNCHANGED notFsa

\* fsa.search_within_distance(word, dist, with_count).
SearchWithinDistanceCall(word, dist, with_count) ==
    /\ ret.op = "none"
    /\ ret' = [NoRet EXCEPT !.op = "search_within_distance", !.arg = Some(word),
                            !.dist = dist, !.with_count = with_count,
                            !.words = search_within_distance(fsa_nodes, word, dist, with_count)]
    /\ UNCHANGED <<fsa_nodes, fsa_id, num_of_words, added>>
    /\ UNCHANGED notFsa

\* The arguments the queries are called with: a word, or None.
QueryArgs == {Some(w) : w \in Words(FsaMaxLen)} \cup {NoneArg}

PatternArgs == {Some(p) : p \in TuplesUpTo(PatternChars, MaxPattern)} \cup {NoneArg}

\* Trie.add and the queries by word: containment, prefixes, edit distance.
NextFsa ==
    \/ /\ Len(added) < MaxAdds
       /\ \E word \in Words(FsaMaxLen) : Add(word)
    \/ /\ ret.op = "none"
       /\ \/ \E arg \in QueryArgs : ContainsCall(arg)
          \/ \E arg \in QueryArgs : ContainsPrefixCall(arg)
          \/ \E arg \in QueryArgs, with_count \in BOOLEAN :
                SearchWithPrefixCall(arg, with_count)
          \/ \E word \in Words(FsaMaxLen + 1), dist \in 0..MaxDist, with_count \in BOOLEAN :
                SearchWithinDistanceCall(word, dist, with_count)

\* Trie.add, of words long enough to branch below a prefix, and the search by
\* prefix.
NextPrefix ==
    \/ /\ Len(added) < MaxAdds
       /\ \E word \in Words(PrefixMaxLen) : Add(word)
    \/ /\ ret.op = "none"
       /\ \E arg \in QueryArgs, with_count \in BOOLEAN : SearchWithPrefixCall(arg, with_count)

\* Trie.add and the wildcard search.
NextSearch ==
    \/ /\ Len(added) < SearchMaxAdds
       /\ \E word \in Words(FsaMaxLen) : Add(word)
    \/ /\ ret.op = "none"
       /\ \E arg \in PatternArgs, with_count \in BOOLEAN : SearchCall(arg, with_count)

\* ------------------------------------------------------------------------
\* temp.py: DAWG
\* ------------------------------------------------------------------------

\* Longest word given to DAWG.add.
DawgMaxLen == 2

\* Most successful calls of DAWG.add.
DawgMaxAdds == 3

\* FSANode.__str__: the label, the count, the end-of-word flag, then the
\* (letter, id) of every child in dict order.  Labels are single characters
\* and the numbers are digits, so two texts are equal exactly when these
\* tuples are.
FSANodeStr(h, n) ==
    <<h[n].val, h[n].count, h[n].terminal,
      [i \in 1..Len(h[n].children) |-> <<h[n].children[i].letter, h[n].children[i].id>>]>>

\* node.children[letter] = id: in place when the letter is a key already, at
\* the end of the dict otherwise.
SetChild(children, letter, id) ==
    IF \E i \in 1..Len(children) : children[i].letter = letter
    THEN [i \in 1..Len(children) |->
             IF children[i].letter = letter THEN [letter |-> letter, id |-> id]
             ELSE children[i]]
    ELSE Append(children, [letter |-> letter, id |-> id])

\* The slot of the dict __minimized_nodes that `child` falls on, 0 when it is
\* not a key: the hash kept in the slot is the one the key had when it was
\* stored, and the key is the same object or has the same text now.
MinimizedSlot(d, child) ==
    LET s == FSANodeStr(d.nodes, child)
        hits == {i \in 1..Len(d.minimized) :
                    /\ d.minimized[i].hash = s
                    /\ \/ d.minimized[i].key = child
                       \/ FSANodeStr(d.nodes, d.minimized[i].key) = s}
    IN IF hits = {} THEN 0 ELSE CHOOSE i \in hits : \A j \in hits : i <= j

\* DAWG._reduce(to): the unchecked entries from the last down to index `to`.
RECURSIVE DawgReduce(_, _)
DawgReduce(d, to) ==
    IF Len(d.unchecked) <= to THEN d
    ELSE LET u == d.unchecked[Len(d.unchecked)]
             rest == SubSeq(d.unchecked, 1, Len(d.unchecked) - 1)
             k == MinimizedSlot(d, u.child)
         IN IF Len(d.nodes[u.child].children) > 0 /\ k > 0
            THEN DawgReduce([d EXCEPT !.nodes[u.parent].children =
                                          SetChild(@, u.letter, d.minimized[k].value),
                                      !.unchecked = rest], to)
            ELSE DawgReduce([d EXCEPT !.minimized =
                                          IF k > 0 THEN [@ EXCEPT ![k].value = u.child]
                                          ELSE Append(@, [hash |-> FSANodeStr(d.nodes, u.child),
                                                          key |-> u.child, value |-> u.child]),
                                      !.unchecked = rest], to)

\* The loop of DAWG.add over word[common_prefix_index:], then the marking of
\* the last node.
RECURSIVE DawgAddSuffix(_, _, _, _)
DawgAddSuffix(d, node, suffix, count) ==
    IF Len(suffix) = 0
    THEN [d EXCEPT !.nodes[node].terminal = TRUE, !.nodes[node].count = @ + count,
                   !.prev_node = node]
    ELSE LET letter == suffix[1]
             new_id == d.id + 1
             n1 == [k \in DOMAIN d.nodes \cup {new_id} |->
                       IF k = new_id THEN FSANode(new_id, letter)
                       ELSE IF k = node
                       THEN [d.nodes[k] EXCEPT !.children = SetChild(@, letter, new_id)]
                       ELSE d.nodes[k]]
             d2 == [d EXCEPT !.nodes = n1, !.id = new_id,
                             !.unchecked = Append(@, [parent |-> node, letter |-> letter,
                                                      child |-> new_id])]
         IN DawgAddSuffix(d2, new_id, Tail(suffix), count)

\* The branch of DAWG.add for a word after the previous one.
DawgInsert(d, word, count) ==
    LET common_prefix_index == common_prefix_length(word, d.prev_word)
        r == DawgReduce(d, common_prefix_index)
        node == IF Len(r.unchecked) = 0 THEN 1 ELSE r.unchecked[Len(r.unchecked)].child
    IN DawgAddSuffix(r, node, SubSeq(word, common_prefix_index + 1, Len(word)), count)

\* DAWG.add had it taken every word as coming after the previous one.
DawgAddUnordered(d, word, count) ==
    [raised |-> FALSE,
     d |-> [DawgInsert(d, word, count) EXCEPT !.num = @ + count, !.prev_word = word]]

\* DAWG.add(word, count).
DawgAdd(d, word, count) ==
    IF LexLT(word, d.prev_word) THEN [raised |-> TRUE, d |-> d]
    ELSE LET d1 == IF word = d.prev_word
                   THEN [d EXCEPT !.nodes[d.prev_node].count = @ + count]
                   ELSE DawgInsert(d, word, count)
         IN [raised |-> FALSE, d |-> [d1 EXCEPT !.num = @ + count, !.prev_word = word]]

\* The DAWG object as one record.
Dawg == [nodes |-> dawg_nodes, id |-> dawg_id, num |-> dawg_num_of_words,
         prev_word |-> prev_word, prev_node |-> prev_node,
         minimized |-> minimized_nodes, unchecked |-> dawg_unchecked]

\* DAWG.__init__: the root FSANode(1, '') under FSA.__init__.
InitDawg ==
    /\ dawg_nodes = [i \in {1} |-> FSANode(1, "")]
    /\ dawg_id = 1
    /\ dawg_num_of_words = 1
    /\ prev_word = <<>>
    /\ prev_node = 1
    /\ minimized_nodes = <<>>
    /\ dawg_unchecked = <<>>
    /\ dawg_ret = [op |-> "none", word |-> <<>>, raised |-> FALSE]

\* dawg.add(word) with the default count of 1; a ValueError leaves the caller
\* with the object as it was.
DawgAddCall(word) ==
    /\ dawg_num_of_words <= DawgMaxAdds
    /\ LET r == DawgAdd(Dawg, word, 1)
       IN /\ dawg_nodes' = r.d.nodes
          /\ dawg_id' = r.d.id
          /\ dawg_num_of_words' = r.d.num
          /\ prev_word' = r.d.prev_word
          /\ prev_node' = r.d.prev_node
          /\ minimized_nodes' = r.d.minimized
          /\ dawg_unchecked' = r.d.unchecked
          /\ dawg_ret' = [op |-> "add", word |-> word, raised |-> r.raised]
    /\ UNCHANGED notDawg

\* dawg.reduce().
DawgReduceCall ==
    /\ LET r == DawgReduce(Dawg, 0)
       IN /\ dawg_nodes' = r.nodes
          /\ minimized_nodes' = r.minimized
          /\ dawg_unchecked' = r.unchecked
    /\ dawg_ret' = [op |-> "reduce", word |-> <<>>, raised |-> FALSE]
    /\ UNCHANGED <<dawg_id, dawg_num_of_words, prev_word, prev_node>>
    /\ UNCHANGED notDawg

\* A DAWG: words added one by one, and reduce() in between.
NextDawg ==
    \/ /\ dawg_num_of_words <= DawgMaxAdds
       /\ \E word \in Words(DawgMaxLen) : DawgAddCall(word)
    \/ DawgReduceCall

\* ------------------------------------------------------------------------
\* Specifications
\* ------------------------------------------------------------------------

vars == <<dafsaVars, fsaVars, arrayVars, dawgVars>>

\* Every object as its constructor leaves it, and build_dafsa not called yet.
Init == InitDafsaObject /\ InitTrie /\ InitBuild /\ InitDawg

\* The DAFSA class: one insert on a fresh object with the default join_trans,
\* then lookups.
SpecDafsa == Init /\ [][NextDafsa]_vars

\* The DAFSA class: one insert with join_trans=True, then lookups.
SpecJoin == Init /\ [][NextJoin]_vars

\* A Trie: words added one by one, and the queries by word in between.
SpecFsa == Init /\ [][NextFsa]_vars

\* A Trie: words added one by one, and wildcard searches in between.
SpecSearch == Init /\ [][NextSearch]_vars

\* A Trie: words added one by one, and searches by prefix in between.
SpecPrefix == Init /\ [][NextPrefix]_vars

\* build_dafsa(sequences, check=True), step by step.
SpecBuild == Init /\ [][NextBuild]_vars

\* A DAWG: words added one by one, and reduce() in between.
SpecDawg == Init /\ [][NextDawg]_vars

\* ------------------------------------------------------------------------
\* Properties of the DAFSA class
\* ------------------------------------------------------------------------

\* The set of sequences given to insert.
Inserted == Range(sequences)

\* C2: on the minimized graph, lookup(q) returns a node exactly when q is one
\* of the inserted sequences (so never for a proper prefix that was not
\* inserted).
C2_LookupIffMember ==
    (phase = "done" /\ kwargs.minimize /\ lookup_ret.called)
        => ((lookup_ret.node # None) <=> (lookup_ret.seq \in Inserted))

\* The prefixes of the members of S.
Prefixes(S) == UNION {{SubSeq(s, 1, k) : k \in 0..Len(s)} : s \in S}

\* The continuation set of prefix p in S: {w : p + w in S}.
Continuations(S, p) ==
    {SubSeq(s, Len(p) + 1, Len(s)) : s \in {t \in S : IsPrefix(p, t)}}

\* States and transitions of the minimal deterministic automaton of S.
MinimalStates(S) == {Continuations(S, p) : p \in Prefixes(S)}

MinimalTransitions(S) ==
    LET steps == {pc \in Prefixes(S) \X Elements : Append(pc[1], pc[2]) \in Prefixes(S)}
    IN {<<Continuations(S, pc[1]), pc[2]>> : pc \in steps}

\* C3: after insert with minimize=True the registry holds as many nodes as
\* the minimal automaton of the inserted set has states, and as many edges as
\* it has transitions.
C3_Minimal ==
    (phase = "done" /\ kwargs.minimize /\ Len(sequences) > 0)
        => /\ count_nodes = Cardinality(MinimalStates(Inserted))
           /\ count_edges = Cardinality(MinimalTransitions(Inserted))

\* The nodes on the path of seq from `node` in graph h, `node` included; the
\* path stops where an edge is missing.
RECURSIVE PathNodes(_, _, _)
PathNodes(h, node, seq) ==
    IF Len(seq) = 0 \/ seq[1] \notin DOMAIN h[node].edges THEN {node}
    ELSE {node} \cup PathNodes(h, h[node].edges[seq[1]].node, Tail(seq))

\* The (source node, label) edges on the path of seq from `node`.
RECURSIVE PathEdges(_, _, _)
PathEdges(h, node, seq) ==
    IF Len(seq) = 0 \/ seq[1] \notin DOMAIN h[node].edges THEN {}
    ELSE {<<node, seq[1]>>} \cup PathEdges(h, h[node].edges[seq[1]].node, Tail(seq))

\* C4: after insert with weight=True every node's weight is the number of
\* inserted sequences (duplicates counted) whose path passes through it, every
\* edge's weight the number that traverse it, and the root's weight is the
\* number of sequences.
C4_Weights ==
    (phase = "done" /\ kwargs.weight)
        => /\ \A id \in DOMAIN heap :
                /\ heap[id].weight =
                      Cardinality({i \in 1..Len(sequences) : id \in PathNodes(heap, 0, sequences[i])})
                /\ \A l \in DOMAIN heap[id].edges :
                      heap[id].edges[l].weight =
                         Cardinality({i \in 1..Len(sequences) :
                                         <<id, l>> \in PathEdges(heap, 0, sequences[i])})
           /\ heap[0].weight = Len(sequences)
           /\ heap[0].weight = num_sequences

\* A minimized graph with weights in which a shared node other than the root
\* lies on the paths of two different sequences and one sequence came twice.
C4_Witness ==
    /\ phase = "done" /\ kwargs.weight /\ kwargs.minimize
    /\ \E i, j \in 1..Len(sequences) : i # j /\ sequences[i] = sequences[j]
    /\ \E id \in DOMAIN heap : id # 0 /\ heap[id].weight = 3
    /\ \E id \in DOMAIN heap : \E l \in DOMAIN heap[id].edges : heap[id].edges[l].weight = 2

\* s and t are two sequences neither of which is a prefix of the other.
Incomparable(s, t) == ~IsPrefix(s, t) /\ ~IsPrefix(t, s)

\* The node count of the trie of S: the root and one node per non-empty prefix.
TrieSize(S) == 1 + Cardinality(Prefixes(S) \ {<<>>})

\* C14: with minimize=False count_nodes() is 1 plus the number of distinct
\* non-empty prefixes of the inserted sequences, and with minimize=True it is
\* strictly smaller than that whenever two of the sequences are not prefixes
\* of one another.
C14_TrieMode ==
    (phase = "done")
        => /\ ~kwargs.minimize => count_nodes = TrieSize(Inserted)
           /\ (kwargs.minimize /\ \E s, t \in Inserted : Incomparable(s, t))
                 => count_nodes < TrieSize(Inserted)

\* An unminimized graph of sequences that share a non-empty prefix, two of
\* them not prefixes of one another and one given twice.
C14_Witness ==
    /\ phase = "done" /\ ~kwargs.minimize
    /\ \E s, t \in Inserted :
          Incomparable(s, t) /\ common_prefix_length(s, t) > 0
    /\ Cardinality(Inserted) < Len(sequences)
    /\ count_nodes = 4

\* C15: for every inserted collection S and member s, the graph of S with one
\* more copy of s has the same registry, the same edges and final flags (so
\* the same count_nodes, count_edges and lookup results), and its weights are
\* those of the graph of S plus exactly 1 on the nodes and edges of the path
\* of s (when weights are collected).  The graphs are compared as insert
\* leaves them, before any lookup.
C15_DuplicatesAddWeight ==
    (phase = "done" /\ ~lookup_ret.called)
        => \A s \in Inserted :
              LET more == insert(Append(sequences, s), kwargs.minimize, kwargs.weight)
                  inc == IF kwargs.weight THEN 1 ELSE 0
              IN /\ more.ok
                 /\ more.nodes = nodes
                 /\ DOMAIN more.heap = DOMAIN heap
                 /\ \A q \in Words(MaxLen) :
                       LookupFrom(more.heap, 0, q) = Lookup(lookup_nodes, q)
                 /\ \A id \in DOMAIN heap :
                       /\ DOMAIN more.heap[id].edges = DOMAIN heap[id].edges
                       /\ more.heap[id].final = heap[id].final
                       /\ more.heap[id].weight =
                             heap[id].weight
                                + (IF id \in PathNodes(heap, 0, s) THEN inc ELSE 0)
                       /\ \A l \in DOMAIN heap[id].edges :
                             /\ more.heap[id].edges[l].node = heap[id].edges[l].node
                             /\ more.heap[id].edges[l].weight =
                                   heap[id].edges[l].weight
                                      + (IF <<id, l>> \in PathEdges(heap, 0, s) THEN inc ELSE 0)

\* A weighted, minimized graph of at least two different sequences, one of
\* them of full length, off whose path some node lies.
C15_Witness ==
    /\ phase = "done" /\ ~lookup_ret.called /\ kwargs.weight /\ kwargs.minimize
    /\ Cardinality(Inserted) >= 2
    /\ \E s \in Inserted :
          /\ Len(s) = MaxLen
          /\ \E id \in Range(nodes) : id \notin PathNodes(heap, 0, s)

\* C16: when insert() returns the frontier of unchecked nodes is empty, and
\* _minimize run again at any index with minimize=True merges nothing and
\* leaves the registry, every edge and every final flag as they are.
C16_FoldIdempotent ==
    (phase = "done")
        => /\ unchecked_nodes = <<>>
           /\ \A index \in 0..MaxLen :
                 LET g == [heap |-> heap, nodes |-> nodes, unchecked |-> unchecked_nodes]
                 IN /\ ~MinimizePass(g, Len(g.unchecked) - index, TRUE, FALSE).changed
                    /\ Minimize(g, index, TRUE) = g

\* insert() returned from a minimizing run that had folded a node away.
C16_Witness ==
    /\ phase = "done" /\ kwargs.minimize
    /\ Len(nodes) + 1 < iditer
    /\ Len(sequences) = MaxSeqs

\* C17: two nodes with the same outgoing edges (same labels, same targets)
\* compare equal whatever their edge weights, and two nodes that differ in
\* their final flag compare unequal even with identical edges.
C17_NodeEquality ==
    \A a, b \in DOMAIN heap :
        /\ (/\ DOMAIN heap[a].edges = DOMAIN heap[b].edges
            /\ \A l \in DOMAIN heap[a].edges : heap[a].edges[l].node = heap[b].edges[l].node
            /\ heap[a].final = heap[b].final)
              => NodeEq(heap, a, b)
        /\ heap[a].final # heap[b].final => ~NodeEq(heap, a, b)

\* C18: whenever insert(S, join_trans=True) returns, lookup(q) is None exactly
\* when lookup(q) is None on the graph insert(S) builds without joining: the
\* lookup_nodes snapshot is the graph as it was before _join_transitions.
C18_JoinKeepsLookup ==
    (phase = "done" /\ kwargs.join_trans)
        => LET plain == insert(sequences, kwargs.minimize, kwargs.weight)
           IN /\ lookup_nodes.heap = plain.heap
              /\ lookup_nodes.nodes = plain.nodes
              /\ lookup_ret.called
                    => ((lookup_ret.node = None)
                           <=> (LookupFrom(plain.heap, 0, lookup_ret.seq) = None))

\* A lookup that found a sequence of two elements after a joining round had
\* taken a node out of the registry.
C18_Witness ==
    /\ phase = "done" /\ kwargs.join_trans
    /\ lookup_ret.called /\ lookup_ret.node # None /\ Len(lookup_ret.seq) = 2
    /\ Len(nodes) < Len(lookup_nodes.nodes)
    /\ \E id \in Range(nodes) : \E l \in DOMAIN heap[id].edges : l \notin Elements

\* The label sequences of the directed paths of at most k edges from node n.
RECURSIVE PathLabels(_, _, _)
PathLabels(h, n, k) ==
    {<<>>} \cup
        (IF k = 0 THEN {}
         ELSE UNION {{<<l>> \o p : p \in PathLabels(h, h[n].edges[l].node, k - 1)} :
                        l \in DOMAIN h[n].edges})

\* The graph h is acyclic from the root on, and every directed path from the
\* root spells a prefix of a member of S.  A graph with a cycle that can be
\* reached from the root has a path of as many edges as it has nodes.
PathsArePrefixes(h, S) ==
    LET size == Cardinality(DOMAIN h)
        paths == PathLabels(h, 0, size)
    IN /\ \A p \in paths : Len(p) < size
       /\ paths \subseteq Prefixes(S)

\* The graphs after each of the n next iterations of the for loop of
\* _minimize on g: one per entry taken off the frontier.
RECURSIVE FoldTrace(_, _, _)
FoldTrace(g, n, minimize) ==
    IF n <= 0 THEN <<>>
    ELSE LET r == MinimizeStep(g, minimize)
         IN <<r.g>> \o FoldTrace(r.g, n - 1, minimize)

\* The sequences inserted so far by the loop of insert.
InsertedSoFar == {sequences[k] : k \in 1..(Len(sequences) - Len(todo))}

\* The index of the call of _minimize the code makes next: the common prefix
\* with the next sequence, or 0 once the loop is over.
NextFoldIndex ==
    IF Len(todo) > 0 THEN common_prefix_length(todo[1], previous_seq) ELSE 0

\* C23: after every single-sequence insertion and after every fold, the
\* graph reachable from the root is acyclic and every directed path from the
\* root spells a prefix of a sequence inserted so far.  The graph of the
\* state is the one after an insertion or after the last fold; the folds of
\* the call of _minimize that comes next are followed one by one.
C23_PathsArePrefixes ==
    /\ (phase \in {"loop", "done"} /\ ~lookup_ret.called /\ InsertedSoFar # {})
          => PathsArePrefixes(heap, InsertedSoFar)
    /\ (phase = "loop" /\ InsertedSoFar # {})
          => LET trace == FoldTrace([heap |-> heap, nodes |-> nodes,
                                    unchecked |-> unchecked_nodes],
                                   Len(unchecked_nodes) - NextFoldIndex, kwargs.minimize)
             IN \A k \in 1..Len(trace) : PathsArePrefixes(trace[k].heap, InsertedSoFar)

\* A state in the loop of a minimizing insert whose next call of _minimize
\* retargets an edge to a node registered before, after two insertions at
\* least.
C23_Witness ==
    /\ phase = "loop" /\ kwargs.minimize
    /\ Cardinality(InsertedSoFar) >= 2
    /\ LET g == [heap |-> heap, nodes |-> nodes, unchecked |-> unchecked_nodes]
           trace == FoldTrace(g, Len(unchecked_nodes) - NextFoldIndex, TRUE)
       IN \E k \in 1..Len(trace) :
             /\ Len(trace[k].nodes) = Len((IF k = 1 THEN g ELSE trace[k - 1]).nodes)
             /\ trace[k].heap # (IF k = 1 THEN g ELSE trace[k - 1]).heap

\* The outgoing-edge signature of a node: its set of (label, target) pairs.
Signature(h, id) == {<<l, h[id].edges[l].node>> : l \in DOMAIN h[id].edges}

\* No two entries of the node registry have the same signature.
DistinctSignatures(h, registry) ==
    \A i, j \in 1..Len(registry) :
        i # j => /\ registry[i] # registry[j]
                 /\ Signature(h, registry[i]) # Signature(h, registry[j])

\* C24: after insert with minimize=True no two distinct nodes of the
\* registry self.nodes have the same set of (label, target node) pairs, and a
\* single deepest-first pass over the frontier reaches this already: once the
\* loop of insert is over, one pass of the for loop of _minimize gives the
\* graph _minimize returns, and that graph has distinct signatures.
C24_MaximalFolding ==
    /\ (phase = "done" /\ kwargs.minimize /\ ~lookup_ret.called)
          => DistinctSignatures(heap, nodes)
    /\ (phase = "loop" /\ Len(todo) = 0 /\ kwargs.minimize)
          => LET g == [heap |-> heap, nodes |-> nodes, unchecked |-> unchecked_nodes]
                 once == MinimizePass(g, Len(unchecked_nodes), TRUE, FALSE).g
             IN /\ once = Minimize(g, 0, TRUE)
                /\ Len(once.unchecked) = 0
                /\ DistinctSignatures(once.heap, once.nodes)

\* A minimized graph in which nodes were folded and several were registered.
C24_Witness ==
    /\ phase = "done" /\ kwargs.minimize /\ ~lookup_ret.called
    /\ Len(nodes) >= 3
    /\ Len(nodes) < iditer

\* How many times _minimize(index, minimize) on g goes through its `while
\* True` loop before it leaves it.
RECURSIVE MinimizePasses(_, _, _)
MinimizePasses(g, index, minimize) ==
    LET r == MinimizePass(g, Len(g.unchecked) - index, minimize, FALSE)
    IN IF r.changed THEN 1 + MinimizePasses(r.g, index, minimize) ELSE 1

\* C27: every call _minimize(index, minimize) returns after at most two
\* passes of its restart loop, and the frontier then holds min(index, its
\* length before the call) entries, for minimize=True and minimize=False:
\* on every graph the loop of insert reaches, for the index the code passes
\* and for every other one.
C27_MinimizeTerminates ==
    (phase = "loop")
        => LET g == [heap |-> heap, nodes |-> nodes, unchecked |-> unchecked_nodes]
           IN \A index \in 0..(MaxLen + 1) :
                 /\ MinimizePasses(g, index, kwargs.minimize) <= 2
                 /\ Len(Minimize(g, index, kwargs.minimize).unchecked)
                       = Min2(index, Len(unchecked_nodes))

\* A state of the loop whose next call of _minimize has an index above 0,
\* folds a node and so goes through its loop twice.
C27_Witness ==
    /\ phase = "loop" /\ Len(todo) > 0
    /\ NextFoldIndex > 0
    /\ Len(unchecked_nodes) > NextFoldIndex
    /\ MinimizePasses([heap |-> heap, nodes |-> nodes, unchecked |-> unchecked_nodes],
                      NextFoldIndex, kwargs.minimize) = 2

\* C28: no false negatives: whatever the collection and the `minimize` flag,
\* insert returns without _collect_weights meeting a missing edge, and lookup
\* then returns a node for every member of the collection.
C28_NoFalseNegatives ==
    /\ phase # "raised"
    /\ (phase = "done" /\ ~lookup_ret.called)
          => \A s \in Inserted : Lookup(lookup_nodes, s) # None
    /\ (phase = "done" /\ lookup_ret.called /\ lookup_ret.seq \in Inserted)
          => lookup_ret.node # None

\* lookup has returned, for a member of a minimized collection with weights,
\* a node that another member, not a prefix of it, reaches as well.
C28_Witness ==
    /\ phase = "done" /\ kwargs.minimize /\ kwargs.weight
    /\ lookup_ret.called /\ lookup_ret.seq \in Inserted
    /\ lookup_ret.node # None
    /\ \E t \in Inserted :
          /\ Incomparable(t, lookup_ret.seq)
          /\ Lookup(lookup_nodes, t) = lookup_ret.node

\* C30: insert with join_trans=True returns for every non-empty collection,
\* without raising, also when the root is not final and has one outgoing edge.
C30_JoinCompletes ==
    (kwargs.join_trans /\ Len(sequences) > 0 /\ phase \notin {"idle", "loop"})
        => phase = "done"

\* A step of the loop of insert: _insert_single_seq(todo[1], previous_seq).
SingleInsertion == phase = "loop" /\ todo' # todo

\* C22 as stated: after every _insert_single_seq(seq, previous_seq) the
\* frontier of unchecked nodes has len(seq) - common_prefix_length(seq,
\* previous_seq) entries.
C22_FrontierBeyondPrefix ==
    [][SingleInsertion
          => Len(unchecked_nodes')
                = Len(todo[1]) - common_prefix_length(todo[1], previous_seq)]_vars

\* C22, amended: after every _insert_single_seq(seq, previous_seq) the
\* frontier has len(seq) entries, one per element of seq: the first
\* common_prefix_length(seq, previous_seq) are the entries that were there
\* before, and the others, len(seq) - common_prefix_length(seq, previous_seq)
\* of them, are the nodes this insertion created.
C22_FrontierWholeDepth ==
    [][SingleInsertion
          => LET seq == todo[1]
                 prefix_len == common_prefix_length(seq, previous_seq)
             IN /\ Len(unchecked_nodes') = Len(seq)
                /\ Len(unchecked_nodes) >= prefix_len
                /\ SubSeq(unchecked_nodes', 1, prefix_len)
                      = SubSeq(unchecked_nodes, 1, prefix_len)
                /\ \A k \in (prefix_len + 1)..Len(seq) :
                      /\ unchecked_nodes'[k].token = seq[k]
                      /\ unchecked_nodes'[k].child = iditer + (k - prefix_len) - 1
                /\ iditer' = iditer + Len(seq) - prefix_len]_vars

\* A sequence that shares a non-empty prefix with the one before it, and goes
\* on beyond it, has just been inserted.
C22_Witness ==
    /\ phase = "loop"
    /\ LET k == Len(sequences) - Len(todo)
       IN /\ k >= 2
          /\ previous_seq = sequences[k]
          /\ common_prefix_length(sequences[k], sequences[k - 1]) > 0
          /\ common_prefix_length(sequences[k], sequences[k - 1]) < Len(sequences[k])
          /\ Len(unchecked_nodes) = Len(sequences[k])

\* ------------------------------------------------------------------------
\* Properties of build_dafsa and the compacted array
\* ------------------------------------------------------------------------

\* build_dafsa(sequences, check=True) is over: it has returned or raised.
BuildOver == build_pc \in {"returned", "ValueError", "AttributeError", "TypeError"}

\* C1: the sequences extract_sequences enumerates from the array that
\* minimize_trie builds for a collection are the set of that collection, the
\* empty sequence included, so build_dafsa with check=True never raises.
C1_RoundTrip ==
    BuildOver
        => /\ build_pc = "returned"
           /\ Range(extracted) = Range(build_sequences)

\* compress_dict as build_compression_array received it, once it has
\* returned: without the merged list it appended to every value of several
\* lists.
CompressDictReceived ==
    [k \in 1..Len(compress_dict) |->
        LET target == compress_dict[k].target
        IN [compress_dict[k] EXCEPT
               !.target = IF Len(target) > 1 THEN SubSeq(target, 1, Len(target) - 1)
                          ELSE target]]

\* The node each entry of the array was made from: the nodes copied into the
\* array, and the trie's root for the last entry.
EntrySources == Append(CompressionState(trie_copy, CompressDictReceived).array, trie_copy)

\* The entries from index c of the code up to the first one with group_end.
RECURSIVE RunFrom(_, _)
RunFrom(entries, c) ==
    IF c + 1 > Len(entries) THEN <<>>
    ELSE IF entries[c + 1].group_end THEN <<entries[c + 1]>>
    ELSE <<entries[c + 1]>> \o RunFrom(entries, c + 1)

\* The (value, terminal) of the members of a list of nodes or of entries.
ValueTerminal(xs) == {<<xs[k].value, xs[k].terminal>> : k \in 1..Len(xs)}

\* build_compression_array has returned.
ArrayBuilt == build_pc \in {"check", "AttributeError"}

\* Index c of the code is the first entry of a sibling group.
GroupStart(c) == c = 1 \/ (c > 1 /\ array[c].group_end)

\* C19: for every entry of the array, made from node n, the entries from its
\* child index to the first group_end entry are one per child of n, with the
\* child's value and terminal flag, and the child index is 0 when n has no
\* children; also when the children of n were merged into a larger block.
C19_TailOffsets ==
    ArrayBuilt
        => \A sources \in {EntrySources} :
              /\ Len(sources) = Len(array)
              /\ \A i \in 1..Len(array) :
                    LET kids == sources[i].children
                        run == RunFrom(array, array[i].child)
                    IN IF Len(kids) = 0 THEN array[i].child = 0
                       ELSE /\ array[i].child > 0
                            /\ Len(run) = Len(kids)
                            /\ ValueTerminal(run) = ValueTerminal(kids)

\* An array with an entry whose child index points inside a block, at the
\* tail the entry's children share with a longer child list.
C19_Witness ==
    /\ ArrayBuilt
    /\ \E sources \in {EntrySources} :
          \E i \in 1..Len(array) :
             /\ array[i].child > 0 /\ ~GroupStart(array[i].child)
             /\ Len(sources[i].children) > 0

\* C20 as stated: a non-zero child index always points to the first entry of
\* a sibling group: for every entry with child = c > 0, c = 1 or the entry at
\* index c - 1 has group_end = true.
C20_ChildAtGroupStart ==
    ArrayBuilt => \A i \in 1..Len(array) : array[i].child > 0 => GroupStart(array[i].child)

\* C20, amended: a non-zero child index points to the first entry of a
\* sibling group exactly when the child list of the entry's node was laid out
\* as a block of its own; a child list merged into a larger block is addressed
\* inside that block, at the entry from which as many entries as the list has
\* members remain up to the group end.
C20_ChildAtGroupStartOrTail ==
    ArrayBuilt
        => \A sources \in {EntrySources}, i \in 1..Len(array) :
              LET c == array[i].child
                  kids == sources[i].children
              IN c > 0
                    => /\ GroupStart(c)
                          <=> \E k \in 1..Len(compress_dict) : compress_dict[k].target[1] = kids
                       /\ c < Len(array) - 1
                       /\ Len(RunFrom(array, c)) = Len(kids)
                       /\ ~GroupStart(c) =>
                             \E j \in 1..Len(array) :
                                /\ GroupStart(array[j].child)
                                /\ array[j].child < c
                                /\ c - array[j].child
                                      = Len(RunFrom(array, array[j].child)) - Len(kids)

\* An array in which one entry points to the start of a block and another
\* into the same block, past its first entry.
C20_Witness ==
    /\ ArrayBuilt
    /\ \E i, j \in 1..Len(array) :
          /\ array[i].child > 0 /\ ~GroupStart(array[i].child)
          /\ GroupStart(array[j].child)
          /\ array[j].child < array[i].child
          /\ array[i].child < array[j].child + Len(RunFrom(array, array[j].child))

\* C21: every array minimize_trie produces is well formed: index 0 is a
\* sentinel with empty value, group_end true, terminal false and child 0; the
\* last index is the root entry, with empty value and, as child, the start of
\* the sibling group of the children of the trie's root (0 when the root has
\* none); every other entry has a non-empty value; every child index c has
\* 0 <= c < len - 1; and the entries from any non-zero child index on reach an
\* entry with group_end before the last index.
C21_WellFormed ==
    ArrayBuilt
        => LET len == Len(array)
               last == array[len]
           IN /\ len >= 2
              /\ array[1].value = "" /\ array[1].group_end
              /\ ~array[1].terminal /\ array[1].child = 0
              /\ last.value = ""
              /\ IF Len(trie_copy.children) = 0 THEN last.child = 0
                 ELSE /\ last.child > 0 /\ GroupStart(last.child)
                      /\ ValueTerminal(RunFrom(array, last.child))
                            = ValueTerminal(trie_copy.children)
              /\ \A i \in 2..(len - 1) : array[i].value # ""
              /\ \A i \in 1..len :
                    LET c == array[i].child
                        run == RunFrom(array, c)
                    IN /\ 0 <= c /\ c < len - 1
                       /\ c > 0 => /\ Len(run) > 0
                                   /\ run[Len(run)].group_end
                                   /\ c + Len(run) - 1 < len - 1

\* An array with at least two sibling groups, one of them of several entries.
C21_Witness ==
    /\ ArrayBuilt
    /\ \E i, j \in 2..(Len(array) - 1) :
          /\ i < j /\ array[i].group_end /\ array[j].group_end
          /\ ~array[j - 1].group_end
    /\ \E i \in 2..(Len(array) - 1) : array[i].child > 1

\* ------------------------------------------------------------------------
\* Properties of the queries on a Trie
\* ------------------------------------------------------------------------

\* The set of words Trie.add was called with.
AddedSet == Range(added)

\* How many times Trie.add was called with w.
TimesAdded(w) == Cardinality({i \in 1..Len(added) : added[i] = w})

\* The words of a result list, and its entries as (word, count) pairs.
ResultWords == {IF ret.with_count THEN ret.words[i][1] ELSE ret.words[i] :
                   i \in 1..Len(ret.words)}

\* Pattern p matches word w: a literal matches itself, '?' one arbitrary
\* element, '*' any number of them.
RECURSIVE Matches(_, _)
Matches(p, w) ==
    IF Len(p) = 0 THEN Len(w) = 0
    ELSE IF p[1] = "*"
    THEN Matches(Tail(p), w) \/ (Len(w) > 0 /\ Matches(p, Tail(w)))
    ELSE /\ Len(w) > 0
         /\ p[1] = "?" \/ p[1] = w[1]
         /\ Matches(Tail(p), Tail(w))

\* The Levenshtein distance of a and b: insertions, deletions and
\* substitutions, each of cost 1.
RECURSIVE Lev(_, _)
Lev(a, b) ==
    IF Len(a) = 0 THEN Len(b)
    ELSE IF Len(b) = 0 THEN Len(a)
    ELSE Min3(Lev(Tail(a), b) + 1, Lev(a, Tail(b)) + 1,
              Lev(Tail(a), Tail(b)) + (IF a[1] = b[1] THEN 0 ELSE 1))

\* C6: for a pattern that passes validation, the words search returns are
\* exactly the added words the canonicalized pattern matches.
C6_WildcardSearch ==
    (ret.op = "search" /\ ~ret.arg.none /\ Len(ret.arg.seq) > 0 /\ ret.raised = "")
        => ResultWords = {w \in AddedSet : Matches(validate_expression(ret.arg.seq).result, w)}

\* C7: search_within_distance(w, d) returns exactly the added non-empty words
\* at Levenshtein distance at most d of w, each once, and under with_count
\* each with the number of times it was added.
C7_WithinDistance ==
    (ret.op = "search_within_distance")
        => /\ ResultWords = {x \in AddedSet : Len(x) > 0 /\ Lev(ret.arg.seq, x) <= ret.dist}
           /\ Len(ret.words) = Cardinality(ResultWords)
           /\ ret.with_count =>
                 \A i \in 1..Len(ret.words) : ret.words[i][2] = TimesAdded(ret.words[i][1])

\* A search within distance 1 with counts that returns a word other than the
\* one asked for, added twice.
C7_Witness ==
    /\ ret.op = "search_within_distance" /\ ret.with_count /\ ret.dist = 1
    /\ \E i \in 1..Len(ret.words) :
          /\ ret.words[i][2] = 2
          /\ ret.words[i][1] # ret.arg.seq

\* C8: `seq in fsa` is True for the empty sequence, False for None, and for a
\* non-empty sequence True exactly when it was added.
C8_Contains ==
    (ret.op = "contains")
        => ret.found = IF ret.arg.none THEN FALSE
                       ELSE IF Len(ret.arg.seq) = 0 THEN TRUE
                       ELSE ret.arg.seq \in AddedSet

\* `seq in fsa` answered False for a proper prefix of an added word.
C8_Witness ==
    /\ ret.op = "contains" /\ ~ret.arg.none /\ ~ret.found
    /\ Len(ret.arg.seq) > 0
    /\ \E w \in AddedSet : IsPrefix(ret.arg.seq, w)

\* C9: contains_prefix(p) is True exactly when p is empty or a prefix of an
\* added word, and False for None.
C9_ContainsPrefix ==
    (ret.op = "contains_prefix")
        => ret.found = IF ret.arg.none THEN FALSE
                       ELSE \/ Len(ret.arg.seq) = 0
                            \/ \E w \in AddedSet : IsPrefix(ret.arg.seq, w)

\* contains_prefix answered True for a non-empty prefix that was not added
\* itself.
C9_Witness ==
    /\ ret.op = "contains_prefix" /\ ~ret.arg.none /\ ret.found
    /\ Len(ret.arg.seq) > 0
    /\ ret.arg.seq \notin AddedSet

\* C10: for a non-empty prefix p, search_with_prefix(p) returns exactly the
\* added words that start with p, each once.
C10_SearchWithPrefix ==
    (ret.op = "search_with_prefix" /\ ~ret.arg.none /\ Len(ret.arg.seq) > 0)
        => /\ ResultWords = {w \in AddedSet : IsPrefix(ret.arg.seq, w)}
           /\ Len(ret.words) = Cardinality(ResultWords)

\* search_with_prefix(p) returned p itself and a longer word.
C10_Witness ==
    /\ ret.op = "search_with_prefix" /\ ~ret.arg.none /\ Len(ret.arg.seq) > 0
    /\ ret.arg.seq \in ResultWords
    /\ Cardinality(ResultWords) >= 2

\* C12: search(pattern) raises InvalidWildCardExpressionError and returns no
\* result for every pattern in which a '?' is immediately followed by a '*'
\* or in which some character is neither a word character nor '?' nor '*'.
C12_MalformedRejected ==
    (/\ ret.op = "search" /\ ~ret.arg.none
     /\ \/ \E i \in 1..Len(ret.arg.seq) :
              ret.arg.seq[i] = "?" /\ i < Len(ret.arg.seq) /\ ret.arg.seq[i + 1] = "*"
        \/ \E i \in 1..Len(ret.arg.seq) : ret.arg.seq[i] \notin Elements \cup {"?", "*"})
        => /\ ret.raised = "InvalidWildCardExpressionError"
           /\ ret.words = <<>>

\* A search that raised for a '?' before a '*' in the middle of a pattern of
\* legal characters, on a trie that holds a word.
C12_Witness ==
    /\ ret.op = "search" /\ ret.raised = "InvalidWildCardExpressionError"
    /\ AddedSet # {} /\ AddedSet # {<<>>}
    /\ \A i \in 1..Len(ret.arg.seq) : ret.arg.seq[i] \in Elements \cup {"?", "*"}
    /\ \E i \in 2..(Len(ret.arg.seq) - 1) : ret.arg.seq[i] = "?" /\ ret.arg.seq[i + 1] = "*"
    /\ ~(ret.arg.seq[1] = "?" /\ ret.arg.seq[2] = "*")

\* C13: search(None) and search('') both raise an error instead of returning
\* an empty result.
C13_EmptyPatternRejected ==
    (ret.op = "search" /\ (ret.arg.none \/ ret.arg.seq = <<>>))
        => ret.raised # ""

\* The word of the i-th entry of a result list.
ResultWord(i) == IF ret.with_count THEN ret.words[i][1] ELSE ret.words[i]

\* C26: search_with_prefix lists the words in increasing order of length: no
\* word of the list is followed by a shorter one.
C26_SortedByLength ==
    (ret.op = "search_with_prefix")
        => \A i \in 1..(Len(ret.words) - 1) : Len(ResultWord(i)) <= Len(ResultWord(i + 1))

\* C25: for every pattern validate_expression accepts, the shortened pattern
\* it returns matches exactly the sequences the original pattern matches,
\* where '?' stands for exactly one element and '*' for any number of them.
C25_CanonicalSameMeaning ==
    (ret.op = "search" /\ ~ret.arg.none /\ ~validate_expression(ret.arg.seq).raised)
        => \A w \in Words(MaxPattern) :
              Matches(validate_expression(ret.arg.seq).result, w) <=> Matches(ret.arg.seq, w)

\* C29: the list a wildcard search returns for a valid pattern holds no
\* sequence twice, also when a '*' can take up elements in more than one way.
C29_NoDuplicates ==
    (ret.op = "search" /\ ret.raised = "")
        => \A i, j \in 1..Len(ret.words) : i # j => ResultWord(i) # ResultWord(j)

\* ------------------------------------------------------------------------
\* Properties of the DAWG
\* ------------------------------------------------------------------------

\* C11: DAWG.add(word) raises whenever word sorts strictly before the
\* previously added word, and then leaves nodes, edges, frontier, registry,
\* word count and remembered previous word and node as they were; a word equal
\* to the previous one is accepted and counted.
C11_OrderingViolation ==
    [][(dawg_ret'.op = "add")
          => /\ LexLT(dawg_ret'.word, prev_word)
                   => /\ dawg_ret'.raised
                      /\ UNCHANGED <<dawg_nodes, dawg_id, dawg_num_of_words, prev_word,
                                     prev_node, minimized_nodes, dawg_unchecked>>
             /\ dawg_ret'.word = prev_word
                   => /\ ~dawg_ret'.raised
                      /\ dawg_num_of_words' = dawg_num_of_words + 1
                      /\ prev_word' = prev_word
             /\ dawg_ret'.raised => LexLT(dawg_ret'.word, prev_word)]_vars

\* add raised on a DAWG that holds a word, with a node in the registry and
\* the path of the previous word on the frontier.
C11_Witness ==
    /\ dawg_ret.op = "add" /\ dawg_ret.raised
    /\ LexLT(dawg_ret.word, prev_word)
    /\ Len(dawg_unchecked) > 0
    /\ Len(minimized_nodes) > 0

====
